---------------------------- MODULE Spec2Model ----------------------------
(***************************************************************************)
(* Model of the special checkers of flatpak-external-data-checker:         *)
(*   src/src/lib/specialcheckers.py          SpecialChecker (facade)       *)
(*   src/src/specialcheckers/runtimechecker.py    RuntimeChecker           *)
(*   src/src/specialcheckers/submodulechecker.py  SubmoduleChecker         *)
(*                                                                         *)
(* Python strings are TLA+ strings; the operations the code applies to     *)
(* them (comparison, slicing, split, "in", concatenation) are computed     *)
(* character by character below.  Python's None is the value None, which   *)
(* no string of the model equals.  A Python dict is a sequence of          *)
(* <<key, value>> pairs in insertion order.                                *)
(***************************************************************************)
EXTENDS Integers, Sequences, FiniteSets, TLC

(***************************************************************************)
(* Python values                                                           *)
(***************************************************************************)
None == "<None>"

\* bool(x) of a str-or-None value
Truthy(x) == x # None /\ x # ""

\* the characters of the model's strings, in code point order
Alphabet == "\t -./0123456789;<=>ABCDEFGHIJKLMNOPQRSTUVWXYZ[]_abcdefghijklmnopqrstuvwxyz"

Char(s, i) == SubSeq(s, i, i)

Ord(c) == CHOOSE i \in 1..Len(Alphabet) : Char(Alphabet, i) = c

\* s[:n]
Prefix(s, n) == IF Len(s) <= n THEN s ELSE SubSeq(s, 1, n)

\* s[n:]
Suffix(s, n) == IF Len(s) <= n THEN "" ELSE SubSeq(s, n + 1, Len(s))

\* a < b on str: lexicographic by code point
RECURSIVE StrLess(_, _)
StrLess(a, b) ==
    IF b = "" THEN FALSE
    ELSE IF a = "" THEN TRUE
    ELSE IF Char(a, 1) = Char(b, 1) THEN StrLess(Suffix(a, 1), Suffix(b, 1))
    ELSE Ord(Char(a, 1)) < Ord(Char(b, 1))

StrLeq(a, b) == a = b \/ StrLess(a, b)

\* max() of a non-empty set of str
StrMax(S) == CHOOSE m \in S : \A x \in S : StrLeq(x, m)

\* sub in s
Contains(s, sub) ==
    \E i \in 1..(Len(s) - Len(sub) + 1) : SubSeq(s, i, i + Len(sub) - 1) = sub

\* index of the first occurrence of the one-character sep in s, 0 if none
FindChar(s, sep) ==
    IF \E i \in 1..Len(s) : Char(s, i) = sep
    THEN CHOOSE i \in 1..Len(s) :
            Char(s, i) = sep /\ \A j \in 1..(i - 1) : Char(s, j) # sep
    ELSE 0

\* s.split(sep) for a one-character sep
RECURSIVE Split(_, _)
Split(s, sep) ==
    LET i == FindChar(s, sep)
    IN  IF i = 0 THEN <<s>>
        ELSE <<Prefix(s, i - 1)>> \o Split(Suffix(s, i), sep)

\* sep.join(parts)
RECURSIVE Join(_, _)
Join(parts, sep) ==
    IF Len(parts) = 0 THEN ""
    ELSE IF Len(parts) = 1 THEN parts[1]
    ELSE parts[1] \o sep \o Join(Tail(parts), sep)

\* s.replace(" ", "")
RECURSIVE StripSpaces(_)
StripSpaces(s) ==
    IF s = "" THEN ""
    ELSE IF Char(s, 1) = " " THEN StripSpaces(Suffix(s, 1))
    ELSE Char(s, 1) \o StripSpaces(Suffix(s, 1))

(***************************************************************************)
(* dict: a sequence of <<key, value>> pairs in insertion order             *)
(***************************************************************************)
EmptyDict == <<>>

DictKeys(d) == {d[i][1] : i \in 1..Len(d)}

DictHas(d, k) == k \in DictKeys(d)

DictGet(d, k) == d[CHOOSE i \in 1..Len(d) : d[i][1] = k][2]

\* d[k] = v: an existing key keeps its place
DictSet(d, k, v) ==
    IF DictHas(d, k)
    THEN [i \in 1..Len(d) |-> IF d[i][1] = k THEN <<k, v>> ELSE d[i]]
    ELSE Append(d, <<k, v>>)

(***************************************************************************)
(* RuntimeChecker: the object's state is the record s.  Every method is an *)
(* operator from s (and its arguments) to [s |-> the state after the call, *)
(* v |-> the value returned].  A Python exception is recorded in s.exc and *)
(* ends the call in progress: every method is a no-op once s.exc is set,   *)
(* and the caller of check sees the exception (pc = "rt_raised").          *)
(***************************************************************************)
R(s, v) == [s |-> s, v |-> v]

\* x = value; then(x): the statement after an assignment, value computed once
Bind(value, then(_)) == CHOOSE y \in {then(x) : x \in {value}} : TRUE

Raise(s, e) == [s EXCEPT !.exc = e]

NoException == ""

\* use_filled_cache=None: self.ref_metadata_cache is None
NoneCache == [is_none |-> TRUE, items |-> EmptyDict]

DictCache(d) == [is_none |-> FALSE, items |-> d]

\* cannot_update_reason is a str or a tuple of str: a tuple of str here, "" is <<>>
NoReason == <<>>

\* flatpak remote-info flathub --system name//version --show-metadata:
\* the metadata lines, or [] when the tool fails (CalledProcessError)
RemoteInfo(info, name, version) ==
    LET ref == name \o "//" \o version
    IN  IF DictHas(info, ref) THEN DictGet(info, ref) ELSE <<>>

\* a cache that is never looked up
CachedNever(cache, key) == FALSE

\* (name + version) in self.ref_metadata_cache (line 780)
Cached(cache, key) == DictHas(cache, key)

get_ref_metadata(s, name, version) ==
    IF s.exc # NoException THEN R(s, <<>>)
    ELSE IF name = None \/ version = None THEN R(Raise(s, "TypeError"), <<>>)
    ELSE IF s.ref_metadata_cache.is_none THEN R(Raise(s, "TypeError"), <<>>)
    ELSE LET key == name \o version
             cache == s.ref_metadata_cache.items
         IN  IF Cached(cache, key) THEN R(s, DictGet(cache, key))
             ELSE LET lines == RemoteInfo(s.info, name, version)
                  IN  R([s EXCEPT
                            !.ref_metadata_cache = DictCache(DictSet(cache, key, lines)),
                            !.fetched = Append(@, <<name, version>>)],
                        lines)

is_extension_of_ref(s, ref_name, ref_version, extension) ==
    Bind(get_ref_metadata(s, ref_name, ref_version), LAMBDA m :
        R(m.s, \E i \in 1..Len(m.v) : m.v[i] = "[Extension " \o extension \o "]"))

\* the loop of get_ref_ref_is_extension_of over the metadata lines:
\* <<"return", name, version>>, <<"IndexError">> or <<"end">>
RECURSIVE ScanExtensionOf(_, _)
ScanExtensionOf(lines, candidate) ==
    IF Len(lines) = 0 THEN <<"end">>
    ELSE LET line == StripSpaces(lines[1])
         IN  IF line = "[ExtensionOf]" THEN ScanExtensionOf(Tail(lines), TRUE)
             ELSE IF Prefix(line, 4) = "ref=" /\ candidate
                  THEN LET split == Split(Suffix(line, 4), "/")
                       IN  IF Len(split) < 4 THEN <<"IndexError">>
                           ELSE <<"return", split[2], split[4]>>
                  ELSE ScanExtensionOf(Tail(lines), candidate)

get_ref_ref_is_extension_of(s, ref_name, ref_version) ==
    Bind(get_ref_metadata(s, ref_name, ref_version), LAMBDA m :
    Bind(ScanExtensionOf(m.v, FALSE), LAMBDA found :
        IF m.s.exc # NoException THEN R(m.s, <<ref_name, ref_version>>)
        ELSE IF found[1] = "IndexError"
             THEN R(Raise(m.s, "IndexError"), <<ref_name, ref_version>>)
        ELSE IF found[1] = "return" THEN R(m.s, <<found[2], found[3]>>)
        ELSE R(m.s, <<ref_name, ref_version>>)))

\* the loop of get_baseapp_target over the metadata lines
RECURSIVE ScanApplication(_, _)
ScanApplication(lines, candidate) ==
    IF Len(lines) = 0 THEN <<"end">>
    ELSE LET line == lines[1]
         IN  IF line = "[Application]" THEN ScanApplication(Tail(lines), TRUE)
             ELSE IF Prefix(line, 4) = "sdk=" /\ candidate
                  THEN LET split == Split(Suffix(line, 4), "/")
                       IN  IF Len(split) < 3 THEN <<"IndexError">>
                           ELSE <<"return", split[1], split[3]>>
                  ELSE ScanApplication(Tail(lines), candidate)

get_baseapp_target(s, runtime, runtime_version) ==
    Bind(get_ref_metadata(s, runtime, runtime_version), LAMBDA m :
    Bind(ScanApplication(m.v, FALSE), LAMBDA found :
        IF m.s.exc # NoException THEN R(m.s, <<runtime, runtime_version>>)
        ELSE IF found[1] = "IndexError"
             THEN R(Raise(m.s, "IndexError"), <<runtime, runtime_version>>)
        ELSE IF found[1] = "return" THEN R(m.s, <<found[2], found[3]>>)
        ELSE R(m.s, <<runtime, runtime_version>>)))

\* the last loop of get_freedesktop_target: the version= line of the
\* [Extension org.freedesktop.Platform.Timezones] group
RECURSIVE ScanTimezones(_, _)
ScanTimezones(lines, candidate) ==
    IF Len(lines) = 0 THEN ""
    ELSE LET line == StripSpaces(lines[1])
         IN  IF line = "[Extensionorg.freedesktop.Platform.Timezones]"
             THEN ScanTimezones(Tail(lines), TRUE)
             ELSE IF Prefix(line, 8) = "version=" /\ candidate THEN Suffix(line, 8)
             ELSE IF line = "" THEN ScanTimezones(Tail(lines), FALSE)
             ELSE ScanTimezones(Tail(lines), candidate)

\* the first loop of get_freedesktop_target over the catalog lines:
\* <<"recurse", target triple>>, <<"IndexError">> or <<"end">>
RECURSIVE ScanTargetRow(_, _, _)
ScanTargetRow(lines, ref_name, ref_version) ==
    IF Len(lines) = 0 THEN <<"end">>
    ELSE LET split == Split(lines[1], "\t")
         IN  IF ref_name # split[1] THEN ScanTargetRow(Tail(lines), ref_name, ref_version)
             ELSE IF Len(split) < 2 THEN <<"IndexError">>
             ELSE IF split[2] = ref_version /\ Len(split) = 3 THEN <<"recurse", split[3]>>
             ELSE ScanTargetRow(Tail(lines), ref_name, ref_version)

\* seen: the (ref_name, ref_version) pairs of the enclosing calls.  A call
\* that comes back to one of them recurses with the same arguments for ever:
\* Python ends it with RecursionError.
RECURSIVE freedesktop_target(_, _, _, _)
freedesktop_target(s, ref_name, ref_version, seen) ==
    IF s.exc # NoException THEN R(s, "")
    ELSE IF ref_name = None THEN R(Raise(s, "TypeError"), "")
    ELSE IF Contains(ref_name, "org.freedesktop.") THEN R(s, ref_version)
    ELSE IF ~(Truthy(ref_name) /\ Truthy(ref_version))
         THEN R(Raise(s, "AssertionError"), "")
    ELSE Bind(ScanTargetRow(s.remote_output.lines, ref_name, ref_version), LAMBDA row :
             IF row[1] = "IndexError" THEN R(Raise(s, "IndexError"), "")
             ELSE IF row[1] = "recurse"
                  THEN Bind(Split(row[2], "/"), LAMBDA triple :
                           IF Len(triple) < 3 THEN R(Raise(s, "IndexError"), "")
                           ELSE IF <<ref_name, ref_version>> \in seen
                                THEN R(Raise(s, "RecursionError"), "")
                           ELSE freedesktop_target(s, triple[1], triple[3],
                                    seen \cup {<<ref_name, ref_version>>}))
             ELSE Bind(get_ref_ref_is_extension_of(s, ref_name, ref_version), LAMBDA e :
                  Bind(get_baseapp_target(e.s, e.v[1], e.v[2]), LAMBDA b :
                      IF b.s.exc # NoException THEN R(b.s, "")
                      ELSE IF Contains(b.v[1], "org.freedesktop.") THEN R(b.s, b.v[2])
                      ELSE IF ~(Truthy(b.v[1]) /\ Truthy(b.v[2]))
                           THEN R(Raise(b.s, "AssertionError"), "")
                      ELSE Bind(get_ref_metadata(b.s, b.v[1], b.v[2]), LAMBDA m :
                               R(m.s, ScanTimezones(m.v, FALSE))))))

get_freedesktop_target(s, ref_name, ref_version) ==
    freedesktop_target(s, ref_name, ref_version, {})

\* self.remote_output: the bool the facade passes, or a list of lines
BoolOutput(b) == [kind |-> "bool", b |-> b, lines |-> <<>>]

ListOutput(lines) == [kind |-> "list", b |-> FALSE, lines |-> lines]

\* not self.remote_output
OutputFalsy(o) == IF o.kind = "bool" THEN ~o.b ELSE Len(o.lines) = 0

\* the loop body with runtime_versions keyed by the branch of every row
VersionsRowByBranch(acc, line, runtime, base, base_version) ==
    Bind(Split(line, "\t"), LAMBDA split :
    Bind(IF runtime # split[1] THEN acc
         ELSE IF Len(split) \in {2, 3}
              THEN [acc EXCEPT !.runtime_versions = DictSet(@, split[2], split[2])]
         ELSE [acc EXCEPT !.exc = "AssertionError"], LAMBDA a1 :
        IF a1.exc # NoException THEN a1
        ELSE IF ~(Truthy(base) /\ base = split[1]) THEN a1
        ELSE IF Len(split) < 3 THEN [a1 EXCEPT !.exc = "IndexError"]
        ELSE [a1 EXCEPT
                !.given_base_target =
                    IF split[2] = base_version THEN split[3] ELSE @,
                !.base_versions = DictSet(@, split[3], split[2])]))

\* one iteration of the loop of get_versions over the catalog lines; acc holds
\* runtime_versions, base_versions, given_base_target and the exception raised
VersionsRow(acc, line, runtime, base, base_version) ==
    Bind(Split(line, "\t"), LAMBDA split :
    Bind(IF runtime # split[1] THEN acc
         ELSE IF Len(split) = 3
              THEN [acc EXCEPT !.runtime_versions = DictSet(@, split[3], split[2])]
         ELSE IF Len(split) = 2
              THEN [acc EXCEPT !.runtime_versions = DictSet(@, split[2], split[2])]
         ELSE [acc EXCEPT !.exc = "AssertionError"], LAMBDA a1 :
        IF a1.exc # NoException THEN a1
        ELSE IF ~(Truthy(base) /\ base = split[1]) THEN a1
        ELSE IF Len(split) < 3 THEN [a1 EXCEPT !.exc = "IndexError"]
        ELSE [a1 EXCEPT
                !.given_base_target =
                    IF split[2] = base_version THEN split[3] ELSE @,
                !.base_versions = DictSet(@, split[3], split[2])]))

RECURSIVE VersionsLoop(_, _, _, _, _)
VersionsLoop(acc, lines, runtime, base, base_version) ==
    IF Len(lines) = 0 \/ acc.exc # NoException THEN acc
    ELSE VersionsLoop(VersionsRow(acc, lines[1], runtime, base, base_version),
                      Tail(lines), runtime, base, base_version)

\* get_versions without its KDE filter
KdeFilterOff(versions, current_version) == versions

\* the KDE filter of get_versions: keep the versions of the same major
KdeFilter(versions, current_version) ==
    SelectSeq(versions, LAMBDA p : Prefix(p[2], 1) = Prefix(current_version, 1))

\* the key of the first item of runtime_versions whose value is
\* runtime_version, "" if there is none
RefOfCurrentRuntime(runtime_versions, runtime_version) ==
    IF \E i \in 1..Len(runtime_versions) : runtime_versions[i][2] = runtime_version
    THEN runtime_versions[CHOOSE i \in 1..Len(runtime_versions) :
            /\ runtime_versions[i][2] = runtime_version
            /\ \A j \in 1..(i - 1) : runtime_versions[j][2] # runtime_version][1]
    ELSE ""

\* returns <<latest_runtime_version, latest_base_version, latest_base_target,
\* older_runtime_versions>>
LatestVersions(runtime_versions, base_versions, base, runtime_version, base_version) ==
    Bind(RefOfCurrentRuntime(runtime_versions, runtime_version),
         LAMBDA ref_of_current_runtime :
    LET latest_runtime_version ==
            IF Len(runtime_versions) = 0 THEN runtime_version
            ELSE DictGet(runtime_versions, StrMax(DictKeys(runtime_versions)))
        older_runtime_versions ==
            IF Len(runtime_versions) = 0 THEN EmptyDict
            ELSE IF ref_of_current_runtime # ""
                 THEN SelectSeq(runtime_versions,
                                LAMBDA p : StrLeq(p[1], ref_of_current_runtime))
            ELSE runtime_versions
        known_base == Truthy(base) /\ Len(base_versions) # 0
        latest_base_version ==
            IF known_base THEN DictGet(base_versions, StrMax(DictKeys(base_versions)))
            ELSE base_version
        latest_base_target ==
            IF known_base THEN StrMax(DictKeys(base_versions)) ELSE ""
    IN  <<latest_runtime_version, latest_base_version, latest_base_target,
          older_runtime_versions>>)

NoVersions == <<None, None, "", EmptyDict>>

get_versions(s, runtime, base, runtime_version, base_version) ==
    IF s.exc # NoException THEN R(s, NoVersions)
    ELSE IF s.remote_output.kind # "list" THEN R(Raise(s, "TypeError"), NoVersions)
    ELSE Bind(VersionsLoop(
                    [runtime_versions |-> EmptyDict, base_versions |-> EmptyDict,
                     given_base_target |-> "", exc |-> NoException],
                    s.remote_output.lines, runtime, base, base_version), LAMBDA acc :
         LET kde_runtime == Contains(runtime, "org.kde.")
             kde_base == Contains(acc.given_base_target, "org.kde.")
             runtime_versions ==
                 IF kde_runtime THEN KdeFilter(acc.runtime_versions, runtime_version)
                 ELSE acc.runtime_versions
             base_versions ==
                 IF kde_base THEN KdeFilter(acc.base_versions, base_version)
                 ELSE acc.base_versions
         IN  IF acc.exc # NoException THEN R(Raise(s, acc.exc), NoVersions)
             ELSE IF runtime = None THEN R(Raise(s, "TypeError"), NoVersions)
             ELSE IF kde_runtime /\ runtime_version = None
                     /\ Len(acc.runtime_versions) # 0
                  THEN R(Raise(s, "TypeError"), NoVersions)
             ELSE R(s, LatestVersions(runtime_versions, base_versions, base,
                                      runtime_version, base_version)))

\* the blanking every failed extension check does: the reason is recorded and
\* the runtime, base and add-extension proposals are cleared
Blank(s, reason) ==
    IF s.exc # NoException THEN s
    ELSE [s EXCEPT !.cannot_update_reason = reason,
                   !.latest_runtime_version = None,
                   !.latest_base_version = None,
                   !.add_extensions = EmptyDict,
                   !.add_build_extensions = EmptyDict]

\* the two targets are read and never compared
check_extension_versions_any(s, name, version, runtime, latest_runtime_version, is_self_defined) ==
    Bind(get_freedesktop_target(s, name, version), LAMBDA e :
    Bind(get_freedesktop_target(e.s, runtime, latest_runtime_version), LAMBDA r :
        R(r.s, TRUE)))

check_extension_versions(s, name, version, runtime, latest_runtime_version, is_self_defined) ==
    Bind(get_freedesktop_target(s, name, version), LAMBDA e :
    Bind(get_freedesktop_target(e.s, runtime, latest_runtime_version), LAMBDA r :
        R(r.s, ~(e.v # r.v /\ ~is_self_defined))))

\* name.split("."); split.pop(-1); ".".join(split)
ExtensionCoreName(name) ==
    LET split == Split(name, ".")
    IN  Join(SubSeq(split, 1, Len(split) - 1), ".")

CleanedName(name) ==
    IF name = "org.freedesktop.Platform.GL32" THEN name \o ".default"
    ELSE IF name = "org.freedesktop.LinuxAudio.Plugins"
         THEN "org.freedesktop.LinuxAudio.BaseExtension"
    ELSE name

\* the lookup under "if not a[3]": r.v is <<a, is_self_defined>>
SecondLookup(a, name, cleaned_name, version) ==
    Bind(get_ref_ref_is_extension_of(a.s, cleaned_name, version), LAMBDA core :
        IF core.v[1] = a.s.app_id
        THEN Bind(get_versions(core.s, core.v[1], None, version, None), LAMBDA b :
                 R(b.s, <<b.v, FALSE>>))
        ELSE Bind(ExtensionCoreName(name), LAMBDA extension_core_name :
             Bind(IF DictHas(core.s.found_extension_points, name) THEN R(core.s, TRUE)
                  ELSE is_extension_of_ref(core.s, extension_core_name, "", name),
                  LAMBDA known :
                 IF known.s.exc # NoException \/ ~known.v THEN R(known.s, <<a.v, FALSE>>)
                 ELSE Bind(get_versions(
                              [known.s EXCEPT !.found_extension_points =
                                  DictSet(@, name, extension_core_name \o "//" \o version)],
                              extension_core_name, None, version, None), LAMBDA b :
                          R(b.s, <<b.v, TRUE>>)))))

\* returns <<latest version, the ref the extension is an extension of,
\* older versions, is_self_defined>>
get_extension_versions(s, name, version) ==
    Bind(CleanedName(name), LAMBDA cleaned_name :
    Bind(get_versions(s, cleaned_name, None, version, None), LAMBDA a :
    Bind(IF Len(a.v[4]) # 0 \/ a.s.exc # NoException THEN R(a.s, <<a.v, FALSE>>)
         ELSE SecondLookup(a, name, cleaned_name, version), LAMBDA b :
    Bind(get_ref_ref_is_extension_of(b.s, cleaned_name, b.v[1][1]), LAMBDA of :
        IF of.s.exc # NoException THEN R(of.s, <<None, <<None, None>>, EmptyDict, FALSE>>)
        ELSE R(of.s, <<b.v[1][1], of.v, b.v[1][4], b.v[2]>>)))))

\* get_extension_dict: body is [present, version, versions]; present is
\* bool(extensions.get(extension_point)).  An entry is version_info:
\* [version, versions, older versions, new version, is_self_defined]
RECURSIVE ExtensionDict(_, _)
ExtensionDict(extensions, extension_dict) ==
    IF Len(extensions) = 0 THEN extension_dict
    ELSE IF ~extensions[1][2].present THEN extension_dict
    ELSE ExtensionDict(Tail(extensions),
            DictSet(extension_dict, extensions[1][1],
                    [version |-> extensions[1][2].version,
                     versions |-> extensions[1][2].versions,
                     older |-> EmptyDict, new |-> None, self_defined |-> FALSE]))

get_extension_dict(manifest, category) == ExtensionDict(manifest[category], EmptyDict)

\* version_info[0].split(";") or [] when it is None or ""
SplitVersions(v) == IF Truthy(v) THEN Split(v, ";") ELSE <<>>

\* the inner loop of the first pass of check_add_extensions over sub_version;
\* r.v is version_info
RECURSIVE AddExtensionResolve(_, _, _)
AddExtensionResolve(r, name, sub_versions) ==
    IF Len(sub_versions) = 0 \/ r.s.exc # NoException THEN r
    ELSE Bind(get_extension_versions(r.s, name, sub_versions[1]), LAMBDA g :
         LET vi == r.v
             vi3 == IF Truthy(g.v[1]) THEN [vi EXCEPT !.new = g.v[1]] ELSE vi
             vi2 == IF (Len(g.v[3]) # 0 /\ Len(vi.older) = 0)
                        \/ Len(vi.older) > Len(g.v[3])
                    THEN [vi3 EXCEPT !.older = g.v[3]] ELSE vi3
             vi4 == [vi2 EXCEPT !.self_defined = g.v[4]]
         IN  AddExtensionResolve(
                IF g.s.exc # NoException THEN R(g.s, vi) ELSE R(g.s, vi4),
                name, Tail(sub_versions)))

\* the first pass over extension.items(); r.v is the dict being filled in
RECURSIVE AddExtensionsResolve(_, _)
AddExtensionsResolve(r, i) ==
    IF i > Len(r.v) \/ r.s.exc # NoException THEN r
    ELSE Bind(AddExtensionResolve(R(r.s, r.v[i][2]), r.v[i][1],
                  SplitVersions(r.v[i][2].version) \o SplitVersions(r.v[i][2].versions)),
              LAMBDA one :
             AddExtensionsResolve(R(one.s, DictSet(r.v, r.v[i][1], one.v)), i + 1))

\* the inner loop of the second pass: one check per declared version, left
\* at the first failure
RECURSIVE AddExtensionValidate(_, _, _, _, _)
AddExtensionValidate(s, name, vi, n, target) ==
    IF n = 0 \/ s.exc # NoException THEN s
    ELSE Bind(check_extension_versions(s, name, vi.new, target[1], target[2],
                                       vi.self_defined), LAMBDA c :
             IF c.s.exc # NoException THEN c.s
             ELSE IF ~c.v
                  THEN Blank(c.s, <<"Cannot update", name, vi.new, target[1], target[2]>>)
             ELSE AddExtensionValidate(c.s, name, vi, n - 1, target))

\* None and "" become "": "".split(";") is [""]
VersionsToCheck(vi) ==
    Len(Split(IF Truthy(vi.version) THEN vi.version ELSE "", ";"))
        + Len(Split(IF Truthy(vi.versions) THEN vi.versions ELSE "", ";"))

\* the second pass over extension.items()
\* version_info[0] and version_info[1] are set to "" when None: the entry is
\* an entry of self.add_extensions as long as that dict was not replaced by {}
Normalised(vi) ==
    [vi EXCEPT !.version = IF Truthy(@) THEN @ ELSE "",
               !.versions = IF Truthy(@) THEN @ ELSE ""]

RECURSIVE AddExtensionsValidate(_, _, _, _, _)
AddExtensionsValidate(s, which, extension, i, target) ==
    IF i > Len(extension) \/ s.exc # NoException THEN s
    ELSE Bind(Normalised(extension[i][2]), LAMBDA vi :
         Bind(AddExtensionValidate(
                  IF Len(s[which]) = 0 THEN s
                  ELSE [s EXCEPT ![which] = DictSet(@, extension[i][1], vi)],
                  extension[i][1], vi, VersionsToCheck(vi), target), LAMBDA s1 :
             AddExtensionsValidate(s1, which, extension, i + 1, target)))

\* which is "add_extensions" or "add_build_extensions": the dict passed is
\* that attribute's dict, and its entries are updated in place
check_add_extensions(s, which, runtime, latest_runtime_version) ==
    IF s.exc # NoException \/ Len(s[which]) = 0 THEN s
    ELSE Bind(AddExtensionsResolve(R(s, s[which]), 1), LAMBDA resolved :
             AddExtensionsValidate(
                 IF resolved.s.exc # NoException THEN resolved.s
                 ELSE [resolved.s EXCEPT ![which] = resolved.v],
                 which, resolved.v, 1, <<runtime, latest_runtime_version>>))

\* one iteration of the loop of check_extensions; r.v is extensions_dict, base
\* is <<base, latest_base_version>>, runtime is <<runtime, runtime_version,
\* latest_runtime_version>>
CheckExtension(r, extension, runtime, base, only_base) ==
    Bind(get_extension_versions(r.s, extension, runtime[2]), LAMBDA g :
    LET latest_version == g.v[1]
        extension_core == g.v[2]
        is_self_defined == g.v[4]
    IN  IF g.s.exc # NoException THEN R(g.s, r.v)
        ELSE IF extension_core[1] = base[1]
        THEN Bind(check_extension_versions(g.s, extension, latest_version,
                      extension_core[1], base[2], is_self_defined), LAMBDA of_base :
                 IF of_base.s.exc # NoException THEN R(of_base.s, r.v)
                 ELSE IF of_base.v
                      THEN R(of_base.s, DictSet(r.v, extension, latest_version))
                 ELSE R(Blank(of_base.s,
                           <<"Extension is not available for base", extension, base[1]>>),
                        r.v))
        ELSE IF ~only_base
        THEN Bind(get_baseapp_target(g.s, extension_core[1], extension_core[2]),
                  LAMBDA potential :
                 IF potential.s.exc # NoException THEN R(potential.s, r.v)
                 ELSE IF ~(potential.v[1] = extension_core[1]
                            /\ potential.v[2] = extension_core[2])
                      THEN R(Blank(potential.s,
                               <<"Extension is not available for runtime/sdk",
                                 extension, runtime[3]>>),
                             r.v)
                 ELSE Bind(check_extension_versions(potential.s, extension,
                               latest_version, runtime[1], runtime[3], is_self_defined),
                           LAMBDA of_sdk :
                          IF of_sdk.s.exc # NoException THEN R(of_sdk.s, r.v)
                          ELSE IF of_sdk.v
                               THEN R(of_sdk.s, DictSet(r.v, extension, latest_version))
                          ELSE R(Blank(of_sdk.s,
                                    <<"Extension is not available for runtime/sdk",
                                      extension, runtime[3]>>),
                                 r.v)))
        ELSE R(Blank(g.s, <<"Unable to find recent version of extension", extension,
                            "not offering runtime updates">>),
               r.v))

RECURSIVE CheckExtensionsLoop(_, _, _, _, _)
CheckExtensionsLoop(r, extensions, runtime, base, only_base) ==
    IF Len(extensions) = 0 \/ r.s.exc # NoException THEN r
    ELSE Bind(CheckExtension(r, extensions[1], runtime, base, only_base), LAMBDA r1 :
             CheckExtensionsLoop(r1, Tail(extensions), runtime, base, only_base))

\* returns extensions_dict
check_extensions(s, category, runtime, runtime_version, latest_runtime_version, base, latest_base_version, only_base) ==
    CheckExtensionsLoop(R(s, EmptyDict), s.root_manifest[category],
                        <<runtime, runtime_version, latest_runtime_version>>,
                        <<base, latest_base_version>>, only_base)

\* both fields proposed as soon as one of them equals runtime_version
check_branch_coupled(s, branch, default_branch, runtime_version, latest_runtime_version) ==
    IF \/ Truthy(default_branch) /\ default_branch = runtime_version
       \/ Truthy(branch) /\ branch = runtime_version
    THEN [s EXCEPT !.default_branch = latest_runtime_version,
                   !.branch = latest_runtime_version]
    ELSE s

check_branch(s, branch, default_branch, runtime_version, latest_runtime_version) ==
    LET s1 == IF Truthy(default_branch) /\ default_branch = runtime_version
              THEN [s EXCEPT !.default_branch = latest_runtime_version] ELSE s
    IN  IF Truthy(branch) /\ branch = runtime_version
        THEN [s1 EXCEPT !.branch = latest_runtime_version] ELSE s1

\* runtime_from_branch comparing one character less of the branch name
runtime_from_branch_short(s, git_branch) ==
    IF git_branch = None THEN R(s, None)
    ELSE IF Prefix(git_branch, 6) = "branch"
         THEN R([s EXCEPT !.cannot_update_reason =
                    <<"Will not check for runtime updates since on a Flathub defined, runtime version locked branch:",
                      git_branch>>],
                Suffix(git_branch, 7))
    ELSE R(s, None)

\* git branch --show-current: None stands for CalledProcessError.  Returns
\* base_branch[7:] or None
runtime_from_branch(s, git_branch) ==
    IF git_branch = None THEN R(s, None)
    ELSE IF Prefix(git_branch, 7) = "branch/"
         THEN R([s EXCEPT !.cannot_update_reason =
                    <<"Will not check for runtime updates since on a Flathub defined, runtime version locked branch:",
                      git_branch>>],
                Suffix(git_branch, 7))
    ELSE R(s, None)

(***************************************************************************)
(* RuntimeChecker.check, in the order of its statements.  The steps below  *)
(* are the consecutive parts of the one call (check has no await in it);   *)
(* l holds its local variables.                                            *)
(***************************************************************************)
\* RuntimeChecker.__init__; the attributes check creates later are None or {}
NewRuntimeChecker(info) ==
    [latest_runtime_version |-> None, latest_base_version |-> None,
     add_extensions |-> EmptyDict, add_build_extensions |-> EmptyDict,
     ref_metadata_cache |-> DictCache(EmptyDict),
     found_extension_points |-> EmptyDict,
     cannot_update_reason |-> NoReason,
     remote_output |-> ListOutput(<<>>), root_manifest |-> None,
     app_id |-> None, base |-> None,
     inherit_extensions |-> EmptyDict, inherit_sdk_extensions |-> EmptyDict,
     base_extensions |-> EmptyDict, sdk_extensions |-> EmptyDict,
     platform_extensions |-> EmptyDict,
     latest_sdk |-> None, default_branch |-> None, branch |-> None,
     \* what the calls of the object have done outside it
     exc |-> NoException, fetched |-> <<>>, listed |-> 0, info |-> info]

NoLocals ==
    [latest_runtime_version |-> None, latest_base_version |-> None,
     latest_base_target |-> "",
     sdk_to_check |-> None, sdk_latest_version_to_check |-> None,
     sdk_version_to_check |-> None]

\* lines 84-129: the attributes are set, the manifest is read, the asserts,
\* the early returns.  r.v is TRUE when check goes on to the catalog
check_begin(s, root_manifest, remote_output, use_filled_cache, git_branch) ==
    LET m == root_manifest
    IN  Bind([s EXCEPT !.remote_output = remote_output,
                       !.ref_metadata_cache = use_filled_cache,
                       !.root_manifest = m,
                       !.app_id = m.id,
                       !.base = m.base,
                       !.inherit_extensions = EmptyDict,
                       !.inherit_sdk_extensions = EmptyDict,
                       !.base_extensions = EmptyDict,
                       !.sdk_extensions = EmptyDict,
                       !.platform_extensions = EmptyDict,
                       !.add_extensions = get_extension_dict(m, "add_extensions"),
                       !.add_build_extensions =
                           get_extension_dict(m, "add_build_extensions"),
                       !.latest_sdk = None,
                       !.default_branch = None,
                       !.branch = None], LAMBDA s1 :
        IF (m.runtime = None \/ m.runtime_version = None)
            /\ m.runtime # m.runtime_version
        THEN R(Raise(s1, "AssertionError"), FALSE)
        ELSE IF (m.base = None \/ m.base_version = None) /\ m.base # m.base_version
        THEN R(Raise(s1, "AssertionError"), FALSE)
        ELSE IF ~Truthy(m.runtime) /\ ~Truthy(m.base) THEN R(s1, FALSE)
        ELSE Bind(runtime_from_branch(s1, git_branch), LAMBDA locked :
                 R(locked.s, ~Truthy(locked.v))))

\* a > b of two str-or-None values that are both str here
Newer(latest, current) == Truthy(latest) /\ StrLess(current, latest)

\* the compatibility gate without the comparison of the two targets
TargetsMatchAny(latest_base_target, runtime_target, baseapp_target) ==
    /\ latest_base_target # ""
    /\ Truthy(runtime_target)
    /\ Truthy(baseapp_target)

\* the condition of the compatibility gate (lines 160-165)
TargetsMatch(latest_base_target, runtime_target, baseapp_target) ==
    /\ latest_base_target # ""
    /\ Truthy(runtime_target)
    /\ Truthy(baseapp_target)
    /\ runtime_target = baseapp_target

\* lines 131-180: the catalog is loaded, get_versions, the compatibility gate.
\* flathub is what get_flathub_list returns.  r.v is the locals
check_gate(s, flathub) ==
    LET m == s.root_manifest
    IN  Bind(get_versions(
                 IF OutputFalsy(s.remote_output)
                 THEN [s EXCEPT !.remote_output = ListOutput(flathub), !.listed = @ + 1]
                 ELSE s,
                 m.runtime, m.base, m.runtime_version, m.base_version), LAMBDA g :
        LET latest_runtime_version == g.v[1]
            latest_base_version == g.v[2]
            latest_base_target == g.v[3]
            l == [NoLocals EXCEPT !.latest_runtime_version = latest_runtime_version,
                                  !.latest_base_version = latest_base_version,
                                  !.latest_base_target = latest_base_target]
            runtime_update_available == Newer(latest_runtime_version, m.runtime_version)
            base_update_available == Newer(latest_base_version, m.base_version)
        IN  IF g.s.exc # NoException THEN R(g.s, l)
            ELSE IF Truthy(m.base)
            THEN Bind(get_freedesktop_target(g.s, m.runtime, latest_runtime_version),
                      LAMBDA runtime_freedesktop_target :
                 Bind(Split(latest_base_target, "/"), LAMBDA triple :
                 Bind(IF latest_base_target = "" THEN R(runtime_freedesktop_target.s, "")
                      ELSE IF Len(triple) < 3
                           THEN R(Raise(runtime_freedesktop_target.s, "IndexError"), "")
                      ELSE get_freedesktop_target(runtime_freedesktop_target.s,
                                                  triple[1], triple[3]),
                      LAMBDA baseapp_freedesktop_target :
                     IF baseapp_freedesktop_target.s.exc # NoException
                     THEN R(baseapp_freedesktop_target.s, l)
                     ELSE IF TargetsMatch(latest_base_target,
                                          runtime_freedesktop_target.v,
                                          baseapp_freedesktop_target.v)
                          THEN R([baseapp_freedesktop_target.s EXCEPT
                                    !.latest_runtime_version = latest_runtime_version,
                                    !.latest_base_version =
                                        IF base_update_available THEN latest_base_version
                                        ELSE None],
                                 l)
                     ELSE R([baseapp_freedesktop_target.s EXCEPT !.cannot_update_reason =
                                <<"could not find matching base for latest runtime version">>],
                            l))))
            ELSE IF runtime_update_available
                 THEN R([g.s EXCEPT !.latest_runtime_version = latest_runtime_version], l)
            ELSE R(g.s, l))

\* lines 182-202: the SDK side-check and the choice of the ref the extensions
\* are validated against.  r.v is the locals
check_sdk(s, l) ==
    LET m == s.root_manifest
    IN  Bind(IF Truthy(m.sdk) THEN Split(m.sdk, "/") ELSE <<>>, LAMBDA sdk :
        Bind(IF ~(Truthy(m.sdk) /\ Len(sdk) = 3 /\ sdk[3] # "") THEN s
             ELSE Bind(get_versions(s, sdk[1], None, sdk[1], None), LAMBDA sdk_data :
                  Bind(get_freedesktop_target(sdk_data.s, sdk[1], sdk_data.v[1]),
                       LAMBDA st :
                  Bind(get_freedesktop_target(st.s, m.runtime, l.latest_runtime_version),
                       LAMBDA rt :
                      IF rt.s.exc # NoException THEN rt.s
                      ELSE IF st.v = rt.v THEN [rt.s EXCEPT !.latest_sdk = sdk_data.v[1]]
                      ELSE rt.s))), LAMBDA s1 :
            IF s1.exc # NoException THEN R(s1, l)
            ELSE IF Truthy(s1.latest_sdk)
            THEN R(s1, [l EXCEPT !.sdk_to_check = sdk[1],
                                 !.sdk_latest_version_to_check = s1.latest_sdk,
                                 !.sdk_version_to_check = sdk[3]])
            ELSE R(s1, [l EXCEPT !.sdk_to_check = m.runtime,
                                 !.sdk_latest_version_to_check = l.latest_runtime_version,
                                 !.sdk_version_to_check = m.runtime_version])))

\* lines 204-209
check_add(s, l) ==
    Bind(check_add_extensions(s, "add_extensions", l.sdk_to_check,
                              l.sdk_latest_version_to_check), LAMBDA s1 :
        check_add_extensions(s1, "add_build_extensions", l.sdk_to_check,
                             l.sdk_latest_version_to_check))

\* lines 211-248
check_listed(s, l) ==
    LET m == s.root_manifest
    IN  Bind(check_extensions(s, "sdk_extensions", l.sdk_to_check,
                l.sdk_version_to_check, l.sdk_latest_version_to_check, "", "", FALSE),
             LAMBDA a :
        IF a.s.exc # NoException THEN a.s ELSE
        Bind(check_extensions([a.s EXCEPT !.sdk_extensions = a.v],
                "platform_extensions", l.sdk_to_check,
                l.sdk_version_to_check, l.sdk_latest_version_to_check, "", "", FALSE),
             LAMBDA b :
        IF b.s.exc # NoException THEN b.s ELSE
        Bind(check_extensions([b.s EXCEPT !.platform_extensions = b.v],
                "inherit_extensions", l.sdk_to_check,
                l.sdk_version_to_check, l.sdk_latest_version_to_check,
                m.base, l.latest_base_version, FALSE),
             LAMBDA c :
        IF c.s.exc # NoException THEN c.s ELSE
        Bind(check_extensions([c.s EXCEPT !.inherit_extensions = c.v],
                "inherit_sdk_extensions", l.sdk_to_check,
                l.sdk_version_to_check, l.sdk_latest_version_to_check,
                m.base, l.latest_base_version, FALSE),
             LAMBDA d :
        IF d.s.exc # NoException THEN d.s ELSE
        Bind(check_extensions([d.s EXCEPT !.inherit_sdk_extensions = d.v],
                "base_extensions", m.runtime, m.runtime_version,
                l.latest_runtime_version, m.base, l.latest_base_version, TRUE),
             LAMBDA e :
        IF e.s.exc # NoException THEN e.s
        ELSE [e.s EXCEPT !.base_extensions = e.v])))))

\* lines 250-252
check_end(s, l) ==
    check_branch(s, s.root_manifest.branch, s.root_manifest.default_branch,
                 s.root_manifest.runtime_version, l.latest_runtime_version)

(***************************************************************************)
(* os.path on POSIX paths                                                  *)
(***************************************************************************)
\* os.path.join(a, b) for a relative b
PathJoin(a, b) == IF a = "" THEN b ELSE a \o "/" \o b

\* the loop of normpath over the components of an absolute path: "" and "."
\* are dropped, ".." removes the component before it, if there is one
RECURSIVE NormComponents(_, _)
NormComponents(parts, acc) ==
    IF Len(parts) = 0 THEN acc
    ELSE IF parts[1] = "" \/ parts[1] = "." THEN NormComponents(Tail(parts), acc)
    ELSE IF parts[1] = ".."
         THEN NormComponents(Tail(parts), SubSeq(acc, 1, Len(acc) - 1))
    ELSE NormComponents(Tail(parts), Append(acc, parts[1]))

\* os.path.normpath of an absolute path
Normpath(path) == "/" \o Join(NormComponents(Split(path, "/"), <<>>), "/")

\* os.path.dirname
Dirname(path) ==
    LET parts == Split(path, "/")
    IN  Join(SubSeq(parts, 1, Len(parts) - 1), "/")

\* the number of leading components two paths share
RECURSIVE CommonLen(_, _)
CommonLen(a, b) ==
    IF Len(a) = 0 \/ Len(b) = 0 \/ a[1] # b[1] THEN 0
    ELSE 1 + CommonLen(Tail(a), Tail(b))

\* os.path.commonpath([a, b])
CommonPath(a, b) ==
    LET pa == Split(a, "/")
    IN  Join(SubSeq(pa, 1, CommonLen(pa, Split(b, "/"))), "/")

\* os.path.relpath(path, start) of two normalised absolute paths
RelPath(path, start) ==
    LET pp == Split(path, "/")
        ps == Split(start, "/")
        n == CommonLen(pp, ps)
        rel == [i \in 1..(Len(ps) - n) |-> ".."] \o SubSeq(pp, n + 1, Len(pp))
    IN  IF Len(rel) = 0 THEN "." ELSE Join(rel, "/")

(***************************************************************************)
(* SubmoduleChecker.  The object's state is the record c; the methods are  *)
(* operators to [s |-> the state after, v |-> the value returned], as for  *)
(* RuntimeChecker.  git is the repository the manifest lies in, as the git *)
(* commands and the file reads of the code see it.                         *)
(***************************************************************************)
CURRENT_HASH_INDEX == 0

UPDATED_HASH_INDEX == 1

\* Submodule.__init__; modules is the dict module -> [current, updated]
Submodule(path, nested, relative_path) ==
    [path |-> path, nested |-> nested, relative_path |-> relative_path,
     commit |-> "", modules |-> EmptyDict]

\* Submodule.add_module
add_module(submodule, module) ==
    [submodule EXCEPT !.modules = DictSet(@, module, <<"", "">>)]

\* self._modules[module][index] = hash
SetModuleHash(submodule, module, index, hash) ==
    [submodule EXCEPT !.modules =
        DictSet(@, module, [DictGet(@, module) EXCEPT ![index + 1] = hash])]

set_module_current_hash(submodule, module, hash) ==
    SetModuleHash(submodule, module, CURRENT_HASH_INDEX, hash)

set_module_updated_hash(submodule, module, hash) ==
    SetModuleHash(submodule, module, UPDATED_HASH_INDEX, hash)

get_module_updated_hash(submodule, module) ==
    DictGet(submodule.modules, module)[UPDATED_HASH_INDEX + 1]

\* hashlib.sha256(data).hexdigest() of the file contents the model uses
Sha256(data) ==
    IF data = "v1" THEN "362d64ed" ELSE IF data = "v2" THEN "53c5bcb7" ELSE "94637ec4"

\* open(path).read(): None stands for IOError
NoFile == None

ReadFile(tree, path) == IF DictHas(tree, path) THEN DictGet(tree, path) ELSE NoFile

\* the state of the checker before check; the fields after exc are what its
\* calls have done outside the object: the scratch directory made, the copies
\* of the git directory into updated/, the submodules advanced in updated/,
\* the hashes compared, the git commands run in the working tree, the
\* operations started on and joined from other threads
NewSubmoduleChecker ==
    [submodules |-> <<>>, errors |-> <<>>, cached_latest_repo |-> FALSE,
     working_manifest_dir |-> "", working_git_top_level_dir |-> "",
     exc |-> NoException,
     scratch |-> FALSE, copies |-> 0, advanced |-> <<>>, compared |-> <<>>,
     commands |-> <<>>, heads |-> <<>>, threads |-> <<>>]

\* asyncio.create_task(asyncio.to_thread(operation)) left without its await
Detached(c, operation) ==
    [c EXCEPT !.threads = Append(@, <<"start", operation>>)]

\* operation run by asyncio.to_thread and awaited at once
OffThread(c, operation) ==
    [c EXCEPT !.threads = @ \o << <<"start", operation>>, <<"join", operation>> >>]

\* _prepare_submodules: one Submodule per line of git submodule foreach
\* --recursive, nested when foreach without --recursive does not list it
RECURSIVE PrepareLoop(_, _, _)
PrepareLoop(c, all_submodule_paths, updateable_submodule_paths) ==
    IF Len(all_submodule_paths) = 0 THEN c
    ELSE LET submodule == all_submodule_paths[1]
             absolute_submodule_dir == PathJoin(c.working_git_top_level_dir, submodule)
         IN  PrepareLoop(
                [c EXCEPT !.submodules = Append(@,
                    Submodule(submodule,
                              \A i \in 1..Len(updateable_submodule_paths) :
                                  updateable_submodule_paths[i] # submodule,
                              RelPath(absolute_submodule_dir, c.working_manifest_dir)))],
                Tail(all_submodule_paths), updateable_submodule_paths)

_prepare_submodules(c, git) ==
    Bind(OffThread(OffThread(c, "submodule update --init --recursive"),
                   "submodule foreach --recursive"), LAMBDA c1 :
        IF Len(git.all) = 0 THEN Raise(c1, "AssertionError")
        ELSE PrepareLoop(OffThread(c1, "submodule foreach"),
                         git.all, git.updateable))

\* _module_in_submodule: the index in self.submodules of the submodule
\* returned, 0 for Submodule("", False, "")
_module_in_submodule(c, module_path) ==
    LET path == Normpath(PathJoin(c.working_manifest_dir, module_path))
        submodules_found ==
            {i \in 1..Len(c.submodules) :
                LET submodule_dir == PathJoin(c.working_git_top_level_dir,
                                              c.submodules[i].path)
                IN  submodule_dir = CommonPath(submodule_dir, path)}
    IN  IF submodules_found = {} THEN 0
        ELSE CHOOSE i \in submodules_found :
                c.submodules[i].path =
                    StrMax({c.submodules[j].path : j \in submodules_found})

\* _get_module_hash
_get_module_hash(c, tree, module_path, relative_module_path, updated_path) ==
    LET manifest_data == ReadFile(tree, module_path)
    IN  IF manifest_data = NoFile
        THEN R([c EXCEPT !.errors = Append(@,
                    <<"IOError", relative_module_path,
                      IF updated_path THEN "updated" ELSE "current">>)], "")
        ELSE R(c, Sha256(manifest_data))

\* the non-nested submodule of self.submodules whose path encloses path: the
\* last one the loop of _update_submodule finds, 0 if it finds none
Enclosing(c, path) ==
    LET candidates ==
            {j \in 1..Len(c.submodules) :
                /\ ~c.submodules[j].nested
                /\ c.submodules[j].path = CommonPath(c.submodules[j].path, path)}
    IN  IF candidates = {} THEN 0
        ELSE CHOOSE j \in candidates : \A i \in candidates : i <= j

\* how git submodule update --init --remote --recursive <path> ends in
\* updated/: "advanced", "stale" (it fails, the submodule stays at its current
\* commit) or "absent" (it fails before the submodule is checked out)
RemoteOutcome(git, path) ==
    IF DictHas(git.remote, path) THEN DictGet(git.remote, path) ELSE "absent"

\* the state of updated/ around path: the outcome of the update of the
\* non-nested submodule enclosing it, "none" when that update was never run
Outcome(c, git, path) ==
    LET j == Enclosing(c, path)
    IN  IF j = 0 THEN "none"
        ELSE IF \A i \in 1..Len(c.advanced) : c.advanced[i] # c.submodules[j].path
             THEN "none"
        ELSE RemoteOutcome(git, c.submodules[j].path)

\* _update_submodule, with test_debug_hardcode_update == ""
_update_submodule(c, git, k) ==
    LET j == IF c.submodules[k].nested /\ Enclosing(c, c.submodules[k].path) # 0
             THEN Enclosing(c, c.submodules[k].path) ELSE k
        submodule == c.submodules[j]
        c1 == [c EXCEPT !.advanced = Append(@, submodule.path)]
    IN  IF RemoteOutcome(git, submodule.path) # "advanced"
        THEN [c1 EXCEPT !.errors =
                Append(@, <<"CalledProcessError", submodule.relative_path, "updated">>)]
        ELSE c1

\* git rev-parse HEAD in updated/<path>: None stands for CalledProcessError
RevParseHead(c, git, path) ==
    LET outcome == Outcome(c, git, path)
    IN  IF outcome = "advanced" THEN DictGet(git.commits, path)[2]
        ELSE IF outcome = "stale" THEN DictGet(git.commits, path)[1]
        ELSE None

\* _get_latest_submodule
_get_latest_submodule(c, git, k) ==
    IF c.submodules[k].commit # "" THEN c
    ELSE Bind(OffThread(_update_submodule(
                  IF c.cached_latest_repo THEN c
                  ELSE OffThread([c EXCEPT !.copies = @ + 1,
                                           !.cached_latest_repo = TRUE],
                                 "copytree updated"),
                  git, k), "_update_submodule"), LAMBDA c1 :
         Bind(RevParseHead(c1, git, c1.submodules[k].path), LAMBDA cleaned_commit :
             IF cleaned_commit = None THEN Raise(c1, "CalledProcessError")
             ELSE [c1 EXCEPT !.submodules[k].commit = cleaned_commit]))

\* the files of updated/ below the git top level
UpdatedTree(c, git, path) ==
    LET outcome == Outcome(c, git, path)
    IN  IF outcome = "advanced" THEN git.upstream
        ELSE IF outcome = "stale" THEN git.current
        ELSE EmptyDict

\* the comparison that also wants both hashes non-empty
HashesDifferNonEmpty(current_hash, updated_hash) ==
    current_hash # "" /\ updated_hash # "" /\ current_hash # updated_hash

\* the comparison _check_module_hash records a module on (line 439)
HashesDiffer(current_hash, updated_hash) == current_hash # updated_hash

\* _check_module_hash for the submodule self.submodules[k]
_check_module_hash(c, git, module_path, k) ==
    LET relative_module_path == module_path
        from_git_top_level_module_path ==
            Suffix(Normpath(PathJoin(c.working_manifest_dir, module_path)),
                   Len(c.working_git_top_level_dir) + 1)
    IN  Bind(_get_module_hash(c, git.current, from_git_top_level_module_path,
                              relative_module_path, FALSE), LAMBDA current :
        Bind(_get_latest_submodule(current.s, git, k), LAMBDA c1 :
            IF c1.exc # NoException THEN c1
            ELSE Bind(_get_module_hash(c1,
                          UpdatedTree(c1, git, from_git_top_level_module_path),
                          from_git_top_level_module_path, relative_module_path, TRUE),
                      LAMBDA updated :
                 Bind([updated.s EXCEPT !.compared = Append(@,
                          <<relative_module_path, k, current.v, updated.v>>)],
                      LAMBDA c2 :
                     IF ~HashesDiffer(current.v, updated.v) THEN c2
                     ELSE IF DictHas(c2.submodules[k].modules, relative_module_path)
                          THEN Raise(c2, "AssertionError")
                     ELSE [c2 EXCEPT !.submodules[k] =
                              set_module_updated_hash(
                                  set_module_current_hash(
                                      add_module(@, relative_module_path),
                                      relative_module_path, current.v),
                                  relative_module_path, updated.v)]))))

\* git submodule status answering for every repository
HasSubmodulesAlways(git) == TRUE

\* git submodule status succeeds and prints something (lines 192-217)
HasSubmodules(git) == git.repo = "submodules"

\* check up to its loop: r.v is TRUE when the loop is entered
sm_check_begin(c, git, relative_modules_paths, manifest_path) ==
    Bind([c EXCEPT !.submodules = <<>>, !.errors = <<>>,
                   !.working_manifest_dir = Dirname(manifest_path)], LAMBDA c1 :
        IF Len(relative_modules_paths) <= 0 THEN R(c1, FALSE)
        ELSE IF ~HasSubmodules(git) THEN R(c1, FALSE)
        ELSE Bind(_prepare_submodules(
                      OffThread([c1 EXCEPT !.working_git_top_level_dir = git.top,
                                           !.scratch = TRUE], "copytree current"),
                      git), LAMBDA c2 :
                 R([c2 EXCEPT !.cached_latest_repo = FALSE],
                   c2.exc = NoException)))

\* one iteration of the loop of check over relative_modules_paths
sm_check_module(c, git, module_path) ==
    Bind(_module_in_submodule(c, module_path), LAMBDA k :
        IF k = 0 THEN c ELSE _check_module_hash(c, git, module_path, k))

\* the change lines of one submodule: one per module with an updated hash
RECURSIVE ChangeLines(_, _)
ChangeLines(submodule, modules) ==
    IF Len(modules) = 0 THEN <<>>
    ELSE (IF get_module_updated_hash(submodule, modules[1][1]) # ""
          THEN <<"Update " \o modules[1][1] \o " in submodule "
                    \o submodule.relative_path>>
          ELSE <<>>)
         \o ChangeLines(submodule, Tail(modules))

RECURSIVE WarningLines(_, _)
WarningLines(submodule, modules) ==
    IF Len(modules) = 0 THEN <<>>
    ELSE <<"Cannot update " \o modules[1][1] \o " in nested submodule "
              \o submodule.relative_path,
           "To update it, its superproject must update its submodules">>
         \o WarningLines(submodule, Tail(modules))

\* the commit a remote has moved to after check looked at it
LaterCommit == "d9e8f70"

\* the tip of the remote when update runs: the commit check recorded, unless
\* the remote has moved since
RemoteTip(submodule, moved) ==
    IF submodule.path \in moved THEN LaterCommit ELSE submodule.commit

\* HEAD left where git submodule update --remote put it
CheckoutSkipped(head, commit) == head

\* HEAD after git checkout <commit> (lines 636-644)
Checkout(head, commit) == commit

\* _update_submodule_commit: failing holds the submodule paths for which
\* git submodule update --init --remote fails in the working tree, moved
\* those whose remote has moved since check; heads lists the commits HEAD of
\* the submodule in the working tree is moved to
_update_submodule_commit(c, submodule, failing, moved) ==
    Bind(OffThread([c EXCEPT !.commands =
                        Append(@, <<"submodule update", submodule.path>>)],
                   "submodule update --init --remote"), LAMBDA c1 :
        IF submodule.path \in failing THEN Raise(c1, "CalledProcessError")
        ELSE [c1 EXCEPT
                !.commands = Append(@, <<"checkout", submodule.path, submodule.commit>>),
                !.heads = @ \o << <<submodule.path, RemoteTip(submodule, moved)>>,
                                  <<submodule.path,
                                    Checkout(RemoteTip(submodule, moved),
                                             submodule.commit)>> >>])

\* update running git for every outdated submodule
UpdatableNested(submodule) == TRUE

\* the submodules update runs git for (line 306)
Updatable(submodule) == ~submodule.nested

\* the loop of update from self.submodules[j]; r.v is
\* <<submodule_changes, nested_submodule_warnings>>
RECURSIVE UpdateLoop(_, _, _, _)
UpdateLoop(r, j, failing, moved) ==
    IF j > Len(r.s.submodules) \/ r.s.exc # NoException THEN r
    ELSE LET submodule == r.s.submodules[j]
         IN  IF ~(submodule.commit # "" /\ Len(submodule.modules) # 0)
             THEN UpdateLoop(r, j + 1, failing, moved)
             ELSE IF Updatable(submodule)
             THEN Bind(_update_submodule_commit(r.s, submodule, failing, moved), LAMBDA c1 :
                      IF c1.exc # NoException THEN R(c1, r.v)
                      ELSE UpdateLoop(
                              R(c1, <<r.v[1] \o ChangeLines(submodule, submodule.modules),
                                      r.v[2]>>),
                              j + 1, failing, moved))
             ELSE UpdateLoop(
                      R(r.s, <<r.v[1],
                               r.v[2] \o WarningLines(submodule, submodule.modules)>>),
                      j + 1, failing, moved)

\* SubmoduleChecker.update
sm_update(c, failing, moved) == UpdateLoop(R(c, << <<>>, <<>> >>), 1, failing, moved)

get_outdated_submodules(c) ==
    SelectSeq(c.submodules, LAMBDA submodule :
        ~(Len(submodule.modules) = 0 \/ submodule.commit = ""))

(***************************************************************************)
(* RuntimeChecker.update and SpecialChecker.update                         *)
(***************************************************************************)
\* dump_manifest of src.lib.utils: the changes are written over the keys of
\* the manifest file
dump_manifest(changes, manifest) ==
    [manifest EXCEPT
        !.runtime_version = IF DictHas(changes, "runtime-version")
                            THEN DictGet(changes, "runtime-version") ELSE @,
        !.base_version = IF DictHas(changes, "base-version")
                         THEN DictGet(changes, "base-version") ELSE @]

\* random.randrange(1, (APPS_COUNT * 24) / MAX_DAILY_RUNTIME_UPDATES): the
\* stop is the float 2400.0, which Python up to 3.11 converts to an int and
\* Python 3.12 rejects with a TypeError
RandrangeOutcomes == {"int", "TypeError"}

\* changes that leave base-version out
ChangesRuntimeOnly(s) ==
    IF Truthy(s.latest_runtime_version)
    THEN DictSet(EmptyDict, "runtime-version", s.latest_runtime_version)
    ELSE EmptyDict

\* changes with both keys whatever the proposals are
ChangesUnconditional(s) ==
    DictSet(DictSet(EmptyDict, "runtime-version", s.latest_runtime_version),
            "base-version", s.latest_base_version)

\* the dict changes of update (lines 657-661)
Changes(s) ==
    Bind(IF Truthy(s.latest_runtime_version)
         THEN DictSet(EmptyDict, "runtime-version", s.latest_runtime_version)
         ELSE EmptyDict, LAMBDA changes :
        IF Truthy(s.latest_base_version)
        THEN DictSet(changes, "base-version", s.latest_base_version)
        ELSE changes)

\* RuntimeChecker.update on the manifest file: r.v is the file it leaves and
\* the value it returns (the method ends without a return statement)
update(s, manifest, randrange) ==
    IF randrange = "TypeError" THEN R(Raise(s, "TypeError"), [file |-> manifest, ret |-> None])
    ELSE R(s, [file |-> IF Truthy(s.latest_runtime_version)
                           \/ Truthy(s.latest_base_version)
                        THEN dump_manifest(Changes(s), manifest) ELSE manifest,
               ret |-> None])

\* submodule_changes + runtime_changes of SpecialChecker.update: None stands
\* for the TypeError of a list concatenated with None
Concatenate(submodule_changes, runtime_changes) ==
    IF runtime_changes = None THEN None ELSE submodule_changes \o runtime_changes

(***************************************************************************)
(* The inputs: manifests, catalogs (the lines of flatpak remote-ls), the   *)
(* metadata flatpak remote-info answers with, the active git branch.       *)
(***************************************************************************)
\* the most rows a catalog passed to check holds
MaxRows == 3

FP == "org.freedesktop.Platform"
FS == "org.freedesktop.Sdk"
KP == "org.kde.Platform"
KS == "org.kde.Sdk"
GP == "org.gnome.Platform"
CB == "org.chromium.Chromium.BaseApp"
QB == "io.qt.qtwebengine.BaseApp"
UR == "com.example.notreal"
I386 == "org.freedesktop.Platform.Compat.i386"
RUST == "org.freedesktop.Sdk.Extension.rust"
WB == "org.winehq.Wine"
WG == "org.winehq.Wine.gecko"
LSP == "org.freedesktop.LinuxAudio.Plugins.LSP"

\* a line of remote-ls --columns=application,branch,runtime
Row2(name, branch) == name \o "\t" \o branch

Row3(name, branch, target, target_branch) ==
    name \o "\t" \o branch \o "\t" \o target \o "/x86_64/" \o target_branch

\* the metadata block of a runtime built on the freedesktop runtime fdo
TimezonesBlock(fdo) ==
    <<"[Runtime]", "", "[Extension org.freedesktop.Platform.Timezones]",
      "directory=share/zoneinfo", "version=" \o fdo>>

\* what the remote answers to remote-info, keyed by name//version
FlathubInfo ==
    << <<GP \o "//3.38", TimezonesBlock("20.08")>>,
       <<GP \o "//41", TimezonesBlock("21.08")>>,
       <<KP \o "//5.15", TimezonesBlock("20.08")>>,
       <<KP \o "//5.15-21.08", TimezonesBlock("21.08")>>,
       <<KP \o "//6.2", TimezonesBlock("21.08")>>,
       <<KS \o "//5.15", TimezonesBlock("20.08")>>,
       <<KS \o "//5.15-21.08", TimezonesBlock("21.08")>>,
       <<KS \o "//6.2", TimezonesBlock("21.08")>>,
       <<WB \o "//stable-20.08", <<"[Application]", "sdk=org.freedesktop.Sdk/x86_64/20.08">> >>,
       <<WB \o "//stable-21.08", <<"[Application]", "sdk=org.freedesktop.Sdk/x86_64/21.08">> >>,
       <<WG \o "//stable-20.08",
         <<"[ExtensionOf]", "ref=app/org.winehq.Wine/x86_64/stable-20.08">> >>,
       <<WG \o "//stable-21.08",
         <<"[ExtensionOf]", "ref=app/org.winehq.Wine/x86_64/stable-21.08">> >>,
       <<LSP \o "//21.08",
         <<"[ExtensionOf]",
           "ref=runtime/org.freedesktop.LinuxAudio.BaseExtension/x86_64/21.08">> >> >>

NoBody == [present |-> FALSE, version |-> None, versions |-> None]

Body(version, versions) == [present |-> TRUE, version |-> version, versions |-> versions]

\* a manifest with none of the keys check reads
NoManifest ==
    [id |-> "org.runtime.runtime", runtime |-> None, runtime_version |-> None,
     base |-> None, base_version |-> None, sdk |-> None,
     branch |-> None, default_branch |-> None,
     add_extensions |-> <<>>, add_build_extensions |-> <<>>,
     sdk_extensions |-> <<>>, platform_extensions |-> <<>>,
     inherit_extensions |-> <<>>, inherit_sdk_extensions |-> <<>>,
     base_extensions |-> <<>>]

Runtime(m, name, version) == [m EXCEPT !.runtime = name, !.runtime_version = version]

Base(m, name, version) == [m EXCEPT !.base = name, !.base_version = version]

FdoRows == <<Row2(FP, "20.08"), Row2(FP, "21.08"), Row2(FS, "20.08"), Row2(FS, "21.08")>>

KdeRows == <<Row2(KP, "5.15"), Row2(KP, "5.15-21.08"), Row2(KP, "6.2"), Row2(KP, "6.3")>>

ChromiumRows ==
    <<Row2(FP, "20.08"), Row2(FP, "21.08"),
      Row3(CB, "20.08", FS, "20.08"), Row3(CB, "21.08", FS, "21.08")>>

QtRows ==
    <<Row2(GP, "3.38"), Row2(GP, "41"), Row3(QB, "5.15", KS, "5.15"),
      Row3(QB, "5.15-21.08", KS, "5.15-21.08"), Row3(QB, "6.2", KS, "6.2")>>

SdkRows ==
    <<Row2(FP, "21.08"), Row2(FS, "21.08"),
      Row3(CB, "20.08", FS, "20.08"), Row3(CB, "21.08", FS, "21.08")>>

KdeSdkRows == <<Row2(KP, "5.15"), Row2(KP, "6.2"), Row2(KS, "5.15"), Row2(KS, "6.2")>>

ExtensionRows ==
    <<Row2(FP, "20.08"), Row2(FP, "21.08"), Row2(I386, "20.08"), Row2(I386, "21.08"),
      Row2(RUST, "20.08"), Row2(RUST, "21.08")>>

\* a manifest and the rows of the remote that concern it
Scenarios ==
    { [manifest |-> Runtime(NoManifest, FP, "20.08"), pool |-> FdoRows],
      [manifest |-> [Runtime(NoManifest, FP, "20.08") EXCEPT
                        !.branch = "20.08", !.default_branch = "stable"],
       pool |-> FdoRows],
      [manifest |-> [Runtime(NoManifest, FP, "20.08") EXCEPT
                        !.branch = "mybranch", !.default_branch = "20.08"],
       pool |-> FdoRows],
      [manifest |-> [Runtime(NoManifest, FP, "20.08") EXCEPT
                        !.branch = "20.08", !.default_branch = "20.08"],
       pool |-> FdoRows],
      [manifest |-> Runtime(NoManifest, UR, "3"), pool |-> FdoRows],
      [manifest |-> NoManifest, pool |-> FdoRows],
      [manifest |-> [NoManifest EXCEPT !.runtime = FP], pool |-> FdoRows],
      [manifest |-> Base(NoManifest, CB, "20.08"), pool |-> ChromiumRows],
      [manifest |-> Runtime(NoManifest, KP, "5.15"), pool |-> KdeRows],
      [manifest |-> Runtime(NoManifest, KP, "6.2"), pool |-> KdeRows],
      [manifest |-> Base(Runtime(NoManifest, FP, "20.08"), CB, "20.08"),
       pool |-> ChromiumRows],
      [manifest |-> Base(Runtime(NoManifest, FP, "21.08"), CB, "21.08"),
       pool |-> ChromiumRows],
      [manifest |-> Base(Runtime(NoManifest, GP, "41"), UR, "21.08"),
       pool |-> QtRows],
      [manifest |-> Base(Runtime(NoManifest, GP, "3.38"), QB, "5.15"),
       pool |-> QtRows],
      [manifest |-> [Runtime(NoManifest, FP, "20.08") EXCEPT !.sdk = FS \o "//20.08"],
       pool |-> FdoRows],
      [manifest |-> [Runtime(NoManifest, FP, "20.08") EXCEPT !.sdk = FS \o "//"],
       pool |-> FdoRows],
      [manifest |-> [Runtime(NoManifest, KP, "5.15") EXCEPT !.sdk = KS \o "//5.15"],
       pool |-> KdeSdkRows],
      [manifest |-> [Runtime(NoManifest, KP, "master") EXCEPT !.sdk = KS \o "//master"],
       pool |-> KdeSdkRows],
      [manifest |-> [Base(Runtime(NoManifest, FP, "20.08"), CB, "20.08") EXCEPT
                        !.sdk = FS \o "//20.08"],
       pool |-> SdkRows],
      [manifest |-> [Runtime(NoManifest, FP, "20.08") EXCEPT
                        !.add_extensions = << <<I386, Body("20.08", None)>> >>],
       pool |-> ExtensionRows],
      [manifest |-> [Base(Runtime(NoManifest, FP, "20.08"), CB, "20.08") EXCEPT
                        !.add_extensions = << <<I386, Body("20.08", None)>> >>,
                        !.add_build_extensions = << <<RUST, Body(None, "20.08;21.08")>> >>],
       pool |-> <<Row2(FP, "21.08"), Row3(CB, "20.08", FS, "20.08"),
                  Row3(CB, "21.08", FS, "21.08"), Row2(I386, "21.08"),
                  Row2(RUST, "21.08")>>],
      [manifest |-> [Runtime(NoManifest, FP, "20.08") EXCEPT
                        !.sdk_extensions = <<RUST>>, !.platform_extensions = <<I386>>],
       pool |-> ExtensionRows],
      \* an audio plugin whose extension point the app does not declare
      [manifest |-> [Runtime(NoManifest, GP, "3.38") EXCEPT
                        !.add_extensions = << <<LSP, Body("20.08", None)>> >>],
       pool |-> <<Row2(GP, "3.38"), Row2(GP, "41"), Row2(LSP, "20.08"),
                  Row2(LSP, "21.08")>>],
      \* a base app as the runtime, whose branch "stable" targets an old runtime
      [manifest |-> Runtime(NoManifest, CB, "20.08"),
       pool |-> <<Row3(CB, "20.08", FS, "20.08"), Row3(CB, "21.08", FS, "21.08"),
                  Row3(CB, "beta", FS, "21.08"), Row3(CB, "stable", FS, "19.08")>>],
      \* rows of the base whose target is a row of the base itself
      [manifest |-> Base(Runtime(NoManifest, FP, "20.08"), CB, "20.08"),
       pool |-> <<Row2(FP, "21.08"), Row3(CB, "20.08", CB, "20.08"),
                  Row3(CB, "21.08", CB, "20.08")>>],
      \* an extension whose name and version concatenate to those of the runtime
      [manifest |-> [Runtime(NoManifest, GP, "3.38") EXCEPT
                        !.add_extensions = << <<GP \o "4", Body("1", None)>> >>],
       pool |-> <<Row2(GP, "3.38"), Row2(GP, "41"), Row2(GP \o "4", "1")>>],
      \* an extension point with an empty body listed before another one
      [manifest |-> [Runtime(NoManifest, FP, "20.08") EXCEPT
                        !.add_extensions = << <<RUST, NoBody>>,
                                              <<I386, Body("20.08", None)>> >>],
       pool |-> ExtensionRows],
      \* extensions of the base
      [manifest |-> [Base(Runtime(NoManifest, GP, "3.38"), WB, "stable-20.08") EXCEPT
                        !.base_extensions = <<WG>>, !.inherit_extensions = <<WG>>],
       pool |-> <<Row2(GP, "3.38"), Row2(GP, "41"),
                  Row3(WB, "stable-20.08", FS, "20.08"),
                  Row3(WB, "stable-21.08", FS, "21.08"),
                  Row2(WG, "stable-20.08"), Row2(WG, "stable-21.08")>>],
      \* the remote lists the base without the runtime it targets
      [manifest |-> Base(Runtime(NoManifest, FP, "20.08"), CB, "20.08"),
       pool |-> <<Row2(FP, "21.08"), Row2(CB, "20.08"), Row2(CB, "21.08")>>] }

\* the order-preserving selections of at most n rows of pool
Selection(pool, I) ==
    LET RECURSIVE Pick(_)
        Pick(k) == IF k > Len(pool) THEN <<>>
                   ELSE (IF k \in I THEN <<pool[k]>> ELSE <<>>) \o Pick(k + 1)
    IN  Pick(1)

Catalogs(pool, n) ==
    {Selection(pool, I) : I \in {J \in SUBSET (1..Len(pool)) : Cardinality(J) <= n}}

\* git branch --show-current: None when the directory is no git repository
GitBranches == {None, "master", "branches/1", "branch/20.08"}

\* the most module paths a manifest references
MaxModules == 2

ManifestPath == "/w/p/app.json"

\* the module paths of the manifest, relative to the manifest's directory:
\* in the submodule p/fh (spelled in two ways), in p/fh/sm, in p/ot, in none
ModulePaths == {"fh/a.json", "./fh/a.json", "fh/sm/b.json", "ot/c.json", "d.json"}

ModuleLists(n) == UNION {[1..k -> ModulePaths] : k \in 0..n}

Tree(a, b, c) ==
    SelectSeq(<< <<"p/fh/a.json", a>>, <<"p/fh/sm/b.json", b>>, <<"p/ot/c.json", c>>,
                 <<"p/d.json", "v1">> >>,
              LAMBDA file : file[2] # NoFile)

\* the files of the submodules at their current commits and at the tips of
\* their remotes
Trees ==
    { [current |-> Tree("v1", "v1", "v1"), upstream |-> Tree("v2", "v2", "v2")],
      [current |-> Tree("v1", "v1", "v1"), upstream |-> Tree("v1", "v1", "v1")],
      [current |-> Tree("v1", "v1", "v1"), upstream |-> Tree("v2", NoFile, "v1")],
      [current |-> Tree(NoFile, "v1", "v1"), upstream |-> Tree("v1", "v2", "v2")],
      [current |-> Tree(NoFile, "v1", "v1"), upstream |-> Tree(NoFile, "v2", NoFile)],
      [current |-> Tree("v1", "v1", "v1"), upstream |-> Tree(NoFile, "v1", "v3")] }

\* the current commit of each submodule and the commit at the tip of its remote
Commits ==
    << <<"p/fh", <<"829ebe9", "4b3bdfa">> >>, <<"p/fh/sm", <<"0a1b2c3", "977feac">> >>,
       <<"p/ot", <<"5d6e7f8", "c3e4bb8">> >> >>

\* the submodules: p/fh with p/fh/sm nested in it and p/ot, or p/fh alone
Layouts ==
    { [all |-> <<"p/fh", "p/fh/sm", "p/ot">>, updateable |-> <<"p/fh", "p/ot">>],
      [all |-> <<"p/fh">>, updateable |-> <<"p/fh">>] }

\* what the remotes of the non-nested submodules answer
Remotes ==
    { << <<"p/fh", "advanced">>, <<"p/ot", "advanced">> >>,
      << <<"p/fh", "stale">>, <<"p/ot", "advanced">> >>,
      << <<"p/fh", "absent">>, <<"p/ot", "advanced">> >>,
      << <<"p/fh", "advanced">>, <<"p/ot", "stale">> >>,
      << <<"p/fh", "advanced">>, <<"p/ot", "absent">> >> }

\* git submodule status fails ("none") or prints nothing ("empty")
NoRepository ==
    [repo |-> "none", top |-> "", all |-> <<>>, updateable |-> <<>>,
     current |-> EmptyDict, upstream |-> EmptyDict, remote |-> EmptyDict,
     commits |-> Commits]

WithSubmodules(layout, tree, remote) ==
    [repo |-> "submodules", top |-> "/w", all |-> layout.all,
     updateable |-> layout.updateable, current |-> tree.current,
     upstream |-> tree.upstream, remote |-> remote, commits |-> Commits]

Repositories ==
    {NoRepository, [NoRepository EXCEPT !.repo = "empty"]}
        \cup {WithSubmodules(layout, tree, remote) :
                layout \in Layouts, tree \in Trees, remote \in Remotes}

FacadeRepositories ==
    {NoRepository,
     WithSubmodules(CHOOSE layout \in Layouts : Len(layout.all) = 3,
                    [current |-> Tree("v1", "v1", "v1"),
                     upstream |-> Tree("v2", NoFile, "v1")],
                    << <<"p/fh", "advanced">>, <<"p/ot", "advanced">> >>)}

\* the manifests the facade is called with
FacadeScenarios ==
    {sc \in Scenarios :
        \/ sc.manifest = NoManifest
        \/ sc.manifest = Runtime(NoManifest, FP, "20.08")
        \/ sc.manifest = Base(Runtime(NoManifest, FP, "20.08"), CB, "20.08")
        \/ sc.manifest = Base(Runtime(NoManifest, GP, "3.38"), QB, "5.15")}

(***************************************************************************)
(* State                                                                   *)
(***************************************************************************)
VARIABLES
    pc,       \* where the calls made on the checkers are
    env,      \* the remote, the git repository and its active branch
    call,     \* the entry point called and its arguments
    sm,       \* the SubmoduleChecker
    pending,  \* the module paths the loop of SubmoduleChecker.check has left
    rt,       \* the RuntimeChecker
    loc,      \* the local variables of RuntimeChecker.check
    ret,      \* what SubmoduleChecker.update returned
    file,     \* the manifest file on disk
    first,    \* the manifest and the RuntimeChecker of the check made before
    result    \* what SpecialChecker.update returned

vars == <<pc, env, call, sm, pending, rt, loc, ret, file, first, result>>

\* no check was made before this one
NoFirst ==
    [made |-> FALSE, manifest |-> NoManifest, rt |-> NewRuntimeChecker(FlathubInfo),
     updated |-> FALSE]

NoReturn == << <<>>, <<>> >>

\* SubmoduleChecker.check and update called on their own
InitSubmodule ==
    \E git \in Repositories, paths \in ModuleLists(MaxModules) :
        /\ env = [flathub |-> <<>>, info |-> FlathubInfo, git_branch |-> "master",
                  git |-> git]
        /\ call = [entry |-> "submodule", is_app |-> TRUE, manifest |-> NoManifest,
                   remote_output |-> ListOutput(<<>>),
                   use_filled_cache |-> DictCache(EmptyDict),
                   relative_modules_paths |-> paths, manifest_path |-> ManifestPath]

\* RuntimeChecker.check called on its own, with the listing of the remote and
\* a metadata cache
InitRuntime ==
    \E sc \in Scenarios, gb \in GitBranches :
        \E cat \in Catalogs(sc.pool, MaxRows) :
            /\ env = [flathub |-> sc.pool, info |-> FlathubInfo, git_branch |-> gb,
                      git |-> NoRepository]
            /\ call = [entry |-> "runtime", is_app |-> TRUE, manifest |-> sc.manifest,
                       remote_output |-> ListOutput(cat),
                       use_filled_cache |-> DictCache(EmptyDict),
                       relative_modules_paths |-> <<>>, manifest_path |-> ManifestPath]

\* SpecialChecker.check
InitFacade ==
    \E sc \in FacadeScenarios, gb \in {"master", "branch/20.08"}, is_app \in BOOLEAN :
        \E git \in FacadeRepositories, paths \in ModuleLists(1) :
            /\ env = [flathub |-> sc.pool, info |-> FlathubInfo, git_branch |-> gb,
                      git |-> git]
            /\ call = [entry |-> "facade", is_app |-> is_app, manifest |-> sc.manifest,
                       remote_output |-> BoolOutput(is_app),
                       use_filled_cache |-> NoneCache,
                       relative_modules_paths |-> paths, manifest_path |-> ManifestPath]

Init ==
    /\ pc = "start"
    /\ sm = NewSubmoduleChecker
    /\ pending = <<>>
    /\ rt = NewRuntimeChecker(FlathubInfo)
    /\ loc = NoLocals
    /\ ret = NoReturn
    /\ (InitSubmodule \/ InitRuntime \/ InitFacade)
    /\ file = call.manifest
    /\ first = NoFirst
    /\ result = None

\* SubmoduleChecker.check, up to its loop
SmBegin ==
    /\ pc = "start"
    /\ call.entry \in {"submodule", "facade"}
    /\ \E r \in {sm_check_begin(NewSubmoduleChecker, env.git,
                                call.relative_modules_paths, call.manifest_path)} :
        /\ sm' = r.s
        /\ pending' = IF r.v THEN call.relative_modules_paths ELSE <<>>
        /\ pc' = IF r.s.exc # NoException THEN "sm_raised"
                 ELSE IF r.v THEN "sm_module" ELSE "sm_checked"
    /\ UNCHANGED <<env, call, rt, loc, ret, file, first, result>>

\* one iteration of the loop of SubmoduleChecker.check
SmModule ==
    /\ pc = "sm_module"
    /\ \E c \in {sm_check_module(sm, env.git, Head(pending))} :
        /\ sm' = c
        /\ pending' = Tail(pending)
        /\ pc' = IF c.exc # NoException THEN "sm_raised"
                 ELSE IF Len(pending) = 1 THEN "sm_checked" ELSE "sm_module"
    /\ UNCHANGED <<env, call, rt, loc, ret, file, first, result>>

\* SubmoduleChecker.update; git may fail for one of the submodules, and the
\* remote of one of them may have moved since check
SmUpdate ==
    /\ pc = "sm_checked"
    /\ call.entry = "submodule"
    /\ \E failing, moved \in
            {{}} \cup {{sm.submodules[j].path} : j \in 1..Len(sm.submodules)} :
        \E r \in {sm_update(sm, failing, moved)} :
            /\ sm' = r.s
            /\ ret' = IF r.s.exc # NoException THEN ret ELSE r.v
            /\ pc' = IF r.s.exc # NoException THEN "sm_update_raised" ELSE "sm_updated"
    /\ UNCHANGED <<env, call, pending, rt, loc, file, first, result>>

\* a step of RuntimeChecker.check: the exception, if any, reaches the caller
Step(r, next) ==
    /\ rt' = r.s
    /\ loc' = r.v
    /\ pc' = IF r.s.exc # NoException THEN "rt_raised" ELSE next
    /\ UNCHANGED <<env, call, sm, pending, ret, file, first, result>>

\* RuntimeChecker.check up to the catalog; the facade calls it on a new
\* RuntimeChecker once SubmoduleChecker.check has returned, with is_app as
\* its third positional argument
RtBegin ==
    /\ pc = IF call.entry = "facade" THEN "sm_checked" ELSE "start"
    /\ call.entry \in {"runtime", "facade"}
    /\ \E r \in {check_begin(NewRuntimeChecker(env.info), call.manifest,
                             call.remote_output, call.use_filled_cache,
                             env.git_branch)} :
           Step(R(r.s, NoLocals), IF r.v THEN "rt_gate" ELSE "rt_returned")

RtGate ==
    /\ pc = "rt_gate"
    /\ Step(check_gate(rt, env.flathub), "rt_sdk")

RtSdk ==
    /\ pc = "rt_sdk"
    /\ Step(check_sdk(rt, loc), "rt_add")

RtAddExtensions ==
    /\ pc = "rt_add"
    /\ Step(R(check_add(rt, loc), loc), "rt_listed")

RtListedExtensions ==
    /\ pc = "rt_listed"
    /\ Step(R(check_listed(rt, loc), loc), "rt_end")

RtEnd ==
    /\ pc = "rt_end"
    /\ Step(R(check_end(rt, loc), loc), "rt_returned")

\* RuntimeChecker.update after a check that returned
RtUpdate ==
    /\ pc = "rt_returned"
    /\ call.entry = "runtime"
    /\ \E randrange \in RandrangeOutcomes :
        \E r \in {update(rt, file, randrange)} :
            /\ rt' = r.s
            /\ file' = r.v.file
            /\ pc' = IF r.s.exc # NoException THEN "rt_update_raised" ELSE "rt_updated"
    /\ UNCHANGED <<env, call, sm, pending, loc, ret, first, result>>

\* the caller makes a new RuntimeChecker and checks the manifest file again,
\* against the same remote: after update, or right after the first check
RtCheckAgain ==
    /\ pc \in {"rt_returned", "rt_updated"}
    /\ call.entry = "runtime"
    /\ ~first.made
    /\ first' = [made |-> TRUE, manifest |-> call.manifest, rt |-> rt,
                 updated |-> pc = "rt_updated"]
    /\ call' = [call EXCEPT !.manifest = file]
    /\ rt' = NewRuntimeChecker(env.info)
    /\ loc' = NoLocals
    /\ pc' = "start"
    /\ UNCHANGED <<env, sm, pending, ret, file, result>>

\* SpecialChecker.update after SpecialChecker.check has returned
FaUpdate ==
    /\ pc = "rt_returned"
    /\ call.entry = "facade"
    /\ \E failing, moved \in
            {{}} \cup {{sm.submodules[j].path} : j \in 1..Len(sm.submodules)} :
        \E randrange \in RandrangeOutcomes :
        \E r1 \in {sm_update(sm, failing, moved)} :
            /\ sm' = r1.s
            /\ IF r1.s.exc # NoException
               THEN /\ pc' = "fa_update_raised"
                    /\ UNCHANGED <<ret, rt, file, result>>
               ELSE \E r2 \in {update(rt, file, randrange)} :
                        /\ ret' = r1.v
                        /\ rt' = r2.s
                        /\ file' = r2.v.file
                        /\ result' = IF r2.s.exc # NoException THEN None
                                      ELSE Concatenate(r1.v[1], r2.v.ret)
                        /\ pc' = IF result' = None
                                 THEN "fa_update_raised" ELSE "fa_updated"
    /\ UNCHANGED <<env, call, pending, loc, first>>

Next ==
    \/ SmBegin
    \/ SmModule
    \/ SmUpdate
    \/ RtBegin
    \/ RtGate
    \/ RtSdk
    \/ RtAddExtensions
    \/ RtListedExtensions
    \/ RtEnd
    \/ RtUpdate
    \/ RtCheckAgain
    \/ FaUpdate

Spec == Init /\ [][Next]_vars
(***************************************************************************)
(* The properties of RuntimeChecker.check                                  *)
(***************************************************************************)
\* check has returned to its caller
Returned == pc = "rt_returned"

\* the manifest declares a runtime or a base
Declares(m) == Truthy(m.runtime) \/ Truthy(m.base)

\* the name of the active git branch starts with "branch/"
OnLockedBranch ==
    /\ env.git_branch # None
    /\ Len(env.git_branch) >= 7
    /\ SubSeq(env.git_branch, 1, 7) = "branch/"

NoBump(s) == s.latest_runtime_version = None /\ s.latest_base_version = None

\* C1: whenever check has returned with a non-empty cannot_update_reason,
\* latest_runtime_version and latest_base_version are None and add_extensions
\* and add_build_extensions are both empty, whichever path recorded the reason
C1_ReasonClearsProposals ==
    Returned /\ rt.cannot_update_reason # NoReason =>
        /\ NoBump(rt)
        /\ rt.add_extensions = EmptyDict
        /\ rt.add_build_extensions = EmptyDict

\* C2: for a manifest declaring a runtime or a base, check returns before the
\* catalog exactly when the git branch name starts with "branch/"; it then
\* records a reason naming the branch, proposes no bump, has loaded no
\* catalog and fetched no metadata, and nothing is done after the return
C2_BranchLock ==
    [][ /\ ( /\ pc \in {"start", "sm_checked"}
             /\ pc' \in {"rt_gate", "rt_returned"}
             /\ Declares(call.manifest)
             => /\ pc' = "rt_returned" <=> OnLockedBranch
                /\ pc' = "rt_returned" =>
                      /\ Len(rt'.cannot_update_reason) = 2
                      /\ rt'.cannot_update_reason[2] = env.git_branch
                      /\ NoBump(rt')
                      /\ rt'.listed = 0
                      /\ rt'.fetched = <<>> )
        /\ (Returned => pc' \notin {"rt_gate", "rt_sdk", "rt_add", "rt_listed", "rt_end"}) ]_vars

C2_Witness ==
    /\ Returned
    /\ Declares(call.manifest)
    /\ OnLockedBranch
    /\ rt.cannot_update_reason # NoReason
    /\ rt.cannot_update_reason[2] = "branch/20.08"

\* C3: when the facade's check is called with is_app false,
\* RuntimeChecker.check returns at once: no catalog is read, nothing is
\* validated, and the proposals and the reason keep their initial values
C3_NotAnAppReturnsAtOnce ==
    call.entry = "facade" /\ ~call.is_app =>
        /\ pc \notin {"rt_gate", "rt_sdk", "rt_add", "rt_listed", "rt_end", "rt_raised"}
        /\ Returned =>
              /\ NoBump(rt)
              /\ rt.latest_sdk = None
              /\ rt.branch = None
              /\ rt.default_branch = None
              /\ rt.add_extensions = EmptyDict
              /\ rt.add_build_extensions = EmptyDict
              /\ rt.cannot_update_reason = NoReason
              /\ rt.listed = 0
              /\ rt.fetched = <<>>

\* the freedesktop target check resolves for a ref
FdoTarget(name, version) == get_freedesktop_target(rt, name, version).v

\* the compatibility gate of this call has been passed
AfterGate ==
    \/ pc \in {"rt_sdk", "rt_add", "rt_listed", "rt_end"}
    \/ Returned /\ Declares(call.manifest) /\ ~OnLockedBranch

\* no line of the catalog is about ref
UnknownToCatalog(ref) ==
    \A i \in 1..Len(rt.remote_output.lines) :
        Split(rt.remote_output.lines[i], "\t")[1] # ref

\* C4: with a base declared, a runtime bump and a base bump are proposed
\* together only when (runtime, latest_runtime_version) and
\* (base, latest_base_version) resolve to the same freedesktop target; when
\* the targets of the latest versions differ, or the catalog does not know the
\* base, the gate records "could not find matching base for latest runtime
\* version" and neither bump is proposed
C4_BaseGate ==
    LET m == call.manifest
    IN  AfterGate /\ Truthy(m.runtime) /\ Truthy(m.base) =>
          /\ rt.latest_runtime_version # None /\ rt.latest_base_version # None =>
                FdoTarget(m.runtime, rt.latest_runtime_version)
                    = FdoTarget(m.base, rt.latest_base_version)
          /\ \/ FdoTarget(m.runtime, loc.latest_runtime_version)
                    # FdoTarget(m.base, loc.latest_base_version)
             \/ UnknownToCatalog(m.base)
             => /\ rt.cannot_update_reason # NoReason
                /\ NoBump(rt)
                /\ pc = "rt_sdk" => rt.cannot_update_reason =
                      <<"could not find matching base for latest runtime version">>

C4_Witness ==
    /\ Returned
    /\ call.manifest.base = CB
    /\ rt.latest_runtime_version = "21.08"
    /\ rt.latest_base_version = "21.08"
    /\ rt.cannot_update_reason = NoReason

\* the catalog has a version of the manifest's runtime newer than the
\* declared one (of the same major for a KDE runtime)
NewerRuntimeInCatalog ==
    LET m == call.manifest
    IN  \E i \in 1..Len(rt.remote_output.lines) :
            LET split == Split(rt.remote_output.lines[i], "\t")
            IN  /\ split[1] = m.runtime
                /\ StrLess(m.runtime_version, split[2])
                /\ Contains(m.runtime, "org.kde.") =>
                      Prefix(split[2], 1) = Prefix(m.runtime_version, 1)

\* C5: with no base declared, the gate proposes latest_runtime_version exactly
\* when the catalog has a strictly newer version of the runtime, and
\* otherwise, also for a runtime the catalog does not know, it records a
\* non-empty reason; so from the gate to the return a proposal means a newer
\* version and no proposal comes with a reason
C5_NoBaseGate ==
    LET m == call.manifest
    IN  AfterGate /\ Truthy(m.runtime) /\ ~Truthy(m.base) =>
          /\ pc = "rt_sdk" => (rt.latest_runtime_version # None <=> NewerRuntimeInCatalog)
          /\ rt.latest_runtime_version # None => NewerRuntimeInCatalog
          /\ rt.latest_runtime_version = None => rt.cannot_update_reason # NoReason

\* C6: a proposed latest_runtime_version is strictly greater than the
\* manifest's runtime-version and a proposed latest_base_version strictly
\* greater than its base-version, with or without a base
C6_StrictBump ==
    LET m == call.manifest
    IN  /\ rt.latest_runtime_version # None =>
              StrLess(m.runtime_version, rt.latest_runtime_version)
        /\ rt.latest_base_version # None =>
              StrLess(m.base_version, rt.latest_base_version)

\* the target the catalog gives for the declared version of the base
DeclaredBaseTarget ==
    LET m == call.manifest
        rows == {i \in 1..Len(rt.remote_output.lines) :
                    LET split == Split(rt.remote_output.lines[i], "\t")
                    IN  Len(split) = 3 /\ split[1] = m.base /\ split[2] = m.base_version}
    IN  IF rows = {} THEN ""
        ELSE Split(rt.remote_output.lines[CHOOSE i \in rows : \A j \in rows : j <= i],
                   "\t")[3]

SameMajor(version, current) == Prefix(version, 1) = Prefix(current, 1)

\* C7: for a KDE runtime, a base whose declared target is a KDE ref, or a KDE
\* sdk given with its branch, neither what get_versions returned nor what
\* check proposes has a first character other than that of the current
\* version, whatever the catalog holds
C7_KdeMajor ==
    LET m == call.manifest
        sdk == IF Truthy(m.sdk) THEN Split(m.sdk, "/") ELSE <<>>
    IN  pc \in {"rt_sdk", "rt_add", "rt_listed", "rt_end", "rt_returned"} =>
          /\ Truthy(m.runtime) /\ Contains(m.runtime, "org.kde.") =>
                /\ loc.latest_runtime_version # None =>
                      SameMajor(loc.latest_runtime_version, m.runtime_version)
                /\ rt.latest_runtime_version # None =>
                      SameMajor(rt.latest_runtime_version, m.runtime_version)
          /\ Truthy(m.base) /\ Contains(DeclaredBaseTarget, "org.kde.") =>
                /\ loc.latest_base_version # None =>
                      SameMajor(loc.latest_base_version, m.base_version)
                /\ rt.latest_base_version # None =>
                      SameMajor(rt.latest_base_version, m.base_version)
          /\ Len(sdk) = 3 /\ Contains(sdk[1], "org.kde.") /\ rt.latest_sdk # None =>
                SameMajor(rt.latest_sdk, sdk[3])

\* the manifest gives the sdk as name/arch/branch with a non-empty branch
ExplicitSdk ==
    /\ Truthy(call.manifest.sdk)
    /\ Len(Split(call.manifest.sdk, "/")) = 3
    /\ Split(call.manifest.sdk, "/")[3] # ""

\* C8: when the sdk is given as a triple with a non-empty branch and the
\* freedesktop targets of the latest sdk and of the latest runtime match, the
\* side-check records latest_sdk and leaves cannot_update_reason empty, also
\* when the gate before it had set one: the gate's reason is gone from then
\* on to the return
C8_SdkCheckClearsReason ==
    LET m == call.manifest
        sdk == Split(m.sdk, "/")
    IN  /\ ExplicitSdk
        /\ pc = "rt_add" \/ (Returned /\ Declares(m) /\ ~OnLockedBranch)
        => LET latest == get_versions(rt, sdk[1], None, sdk[1], None).v[1]
           IN  FdoTarget(sdk[1], latest)
                   = FdoTarget(m.runtime, loc.latest_runtime_version)
               => /\ rt.latest_sdk = latest
                  /\ pc = "rt_add" => rt.cannot_update_reason = NoReason
                  /\ rt.cannot_update_reason #
                        <<"could not find matching base for latest runtime version">>

(***************************************************************************)
(* The properties of SubmoduleChecker                                      *)
(***************************************************************************)
\* the (module, pair) items recorded for the submodules
RecordedPairs ==
    UNION {{<<k, sm.submodules[k].modules[i][1], sm.submodules[k].modules[i][2]>> :
               i \in 1..Len(sm.submodules[k].modules)} :
           k \in 1..Len(sm.submodules)}

\* the comparisons _check_module_hash has made: submodule, module, hashes
Comparisons ==
    {<<sm.compared[i][2], sm.compared[i][1],
       <<sm.compared[i][3], sm.compared[i][4]>> >> : i \in 1..Len(sm.compared)}

Outdated(j) == sm.submodules[j].commit # "" /\ Len(sm.submodules[j].modules) # 0

ChangeLine(j, i) ==
    "Update " \o sm.submodules[j].modules[i][1] \o " in submodule "
        \o sm.submodules[j].relative_path

WarningLine(j, i) ==
    "Cannot update " \o sm.submodules[j].modules[i][1] \o " in nested submodule "
        \o sm.submodules[j].relative_path

Lines(seq) == {seq[i] : i \in 1..Len(seq)}

\* C10: update runs no git command against a nested submodule and returns no
\* change line for one; the modules of an outdated nested submodule are in
\* the warnings only, and every change line is "Update <module> in submodule
\* <relative_path>" of an outdated submodule that is not nested
C10_NestedNotUpdated ==
    /\ \A n \in 1..Len(sm.commands) : \A j \in 1..Len(sm.submodules) :
          sm.submodules[j].path = sm.commands[n][2] =>
              ~sm.submodules[j].nested /\ Outdated(j)
    /\ pc = "sm_updated" =>
          /\ \A line \in Lines(ret[1]) :
                \E j \in 1..Len(sm.submodules) :
                    /\ ~sm.submodules[j].nested
                    /\ Outdated(j)
                    /\ \E i \in 1..Len(sm.submodules[j].modules) : line = ChangeLine(j, i)
          /\ \A j \in 1..Len(sm.submodules) :
                sm.submodules[j].nested =>
                    \A i \in 1..Len(sm.submodules[j].modules) :
                        /\ ChangeLine(j, i) \notin Lines(ret[1])
                        /\ Outdated(j) => WarningLine(j, i) \in Lines(ret[2])

C10_Witness ==
    /\ pc = "sm_updated"
    /\ \E j \in 1..Len(sm.submodules) : sm.submodules[j].nested /\ Outdated(j)
    /\ \E j \in 1..Len(sm.submodules) : ~sm.submodules[j].nested /\ Outdated(j)
    /\ ret[1] # <<>>
    /\ ret[2] # <<>>
    /\ sm.commands # <<>>

\* check has nothing to look at: no module path is referenced, the manifest
\* directory is no git repository, or the repository has no submodule
NothingToCheck ==
    \/ Len(call.relative_modules_paths) = 0
    \/ env.git.repo \in {"none", "empty"}

\* C11: when no module path is referenced, the manifest directory is not a
\* git repository or the repository has no submodules, check returns an empty
\* submodule list, records no error, raises nothing and makes no scratch
\* copy; get_outdated_submodules is then empty and update runs no git
\* command and returns no change and no warning
C11_NothingToCheck ==
    call.entry \in {"submodule", "facade"} /\ NothingToCheck /\ pc # "start" =>
        /\ pc \notin {"sm_module", "sm_raised", "sm_update_raised"}
        /\ sm.submodules = <<>>
        /\ sm.errors = <<>>
        /\ sm.exc = NoException
        /\ ~sm.scratch
        /\ sm.copies = 0
        /\ get_outdated_submodules(sm) = <<>>
        /\ sm.commands = <<>>
        /\ pc = "sm_updated" => ret = << <<>>, <<>> >>

C11_Witness ==
    /\ pc = "sm_updated"
    /\ Len(call.relative_modules_paths) > 0
    /\ env.git.repo = "empty"
    /\ sm.submodules = <<>>
    /\ ret = << <<>>, <<>> >>

\* the submodules git was run for in the working tree, and those it failed
\* for: the checkout of the recorded commit never followed
Advanced(j) ==
    \E n \in 1..Len(sm.commands) :
        sm.commands[n] = <<"submodule update", sm.submodules[j].path>>

FailedToAdvance(j) ==
    /\ Advanced(j)
    /\ \A n \in 1..Len(sm.commands) :
          sm.commands[n] # <<"checkout", sm.submodules[j].path, sm.submodules[j].commit>>

\* C12: a git failure while update advances one outdated submodule is
\* appended to the errors and ends the work on that submodule only: update
\* returns, every other outdated submodule that is not nested has been
\* advanced, and no change line names the failed submodule
C12_FailureSkipsOneSubmodule ==
    \A j \in 1..Len(sm.submodules) :
        FailedToAdvance(j) =>
            /\ pc = "sm_updated"
            /\ sm.exc = NoException
            /\ \E n \in 1..Len(sm.errors) : sm.errors[n][1] = "CalledProcessError"
            /\ \A k \in 1..Len(sm.submodules) :
                  Outdated(k) /\ ~sm.submodules[k].nested => Advanced(k)
            /\ \A i \in 1..Len(sm.submodules[j].modules) :
                  ChangeLine(j, i) \notin Lines(ret[1])

\* HEAD of the submodule in the working tree: the last commit it was moved to
WorkspaceHead(path) ==
    LET moves == SelectSeq(sm.heads, LAMBDA move : move[1] = path)
    IN  IF moves = <<>> THEN None ELSE moves[Len(moves)][2]

\* C13: once update has returned, HEAD of every outdated submodule that is
\* not nested is, in the working tree, the commit check recorded for it, also
\* when the remote has moved to a later commit between check and update
C13_HeadIsRecordedCommit ==
    pc = "sm_updated" =>
        \A j \in 1..Len(sm.submodules) :
            Outdated(j) /\ ~sm.submodules[j].nested =>
                WorkspaceHead(sm.submodules[j].path) = sm.submodules[j].commit

C13_Witness ==
    /\ pc = "sm_updated"
    /\ \E j \in 1..Len(sm.submodules) :
          /\ Outdated(j) /\ ~sm.submodules[j].nested
          /\ <<sm.submodules[j].path, LaterCommit>> \in Lines(sm.heads)
          /\ WorkspaceHead(sm.submodules[j].path) = sm.submodules[j].commit
          /\ sm.submodules[j].commit # LaterCommit

(***************************************************************************)
(* The properties of update                                                *)
(***************************************************************************)
\* C14: after a check of the facade that returned, RuntimeChecker.update
\* returns a list (never None), and SpecialChecker.update, once both updates it
\* calls have come back, returns the change lines of SubmoduleChecker.update
\* followed by that empty list: it does not fail, and its result is the
\* submodule change lines
C14_FacadeUpdateReturnsChanges ==
    call.entry = "facade" =>
        /\ Returned => update(rt, file, "int").v.ret # None
        /\ pc \in {"fa_updated", "fa_update_raised"}
               /\ sm.exc = NoException /\ rt.exc = NoException =>
              /\ pc = "fa_updated"
              /\ result = ret[1]

\* the fields of the rows of the catalog check was given
RowArities ==
    {Len(Split(call.remote_output.lines[i], "\t")) :
        i \in 1..Len(call.remote_output.lines)}

\* C15: neither RuntimeChecker.check nor SubmoduleChecker.check raises to
\* its caller, unless the catalog has a row that has neither two nor three
\* fields: an unknown ref, a ref without metadata, no metadata cache, a row
\* of two fields for the declared base, a ref without a latest version all
\* end in a return
C15_CheckDoesNotRaise ==
    /\ pc # "sm_raised"
    /\ pc = "rt_raised" => \E n \in RowArities : n \notin {2, 3}

\* C16: within one check flatpak remote-info is run at most once for a
\* (name, version) pair: the first call stores the metadata lines in the
\* cache, the empty list when the tool fails, and every later call for the
\* pair returns what was stored and fetches nothing
C16_FetchedOncePerRef ==
    /\ \A i, j \in 1..Len(rt.fetched) : rt.fetched[i] = rt.fetched[j] => i = j
    /\ \A i \in 1..Len(rt.fetched) :
          LET name == rt.fetched[i][1]
              version == rt.fetched[i][2]
          IN  /\ ~rt.ref_metadata_cache.is_none
              /\ DictHas(rt.ref_metadata_cache.items, name \o version)
              /\ DictGet(rt.ref_metadata_cache.items, name \o version)
                     = RemoteInfo(rt.info, name, version)
              /\ rt.exc = NoException =>
                     get_ref_metadata(rt, name, version)
                         = R(rt, RemoteInfo(rt.info, name, version))

C16_Witness ==
    /\ Returned
    /\ Len(rt.fetched) >= 2
    /\ \E i \in 1..Len(rt.fetched) :
          RemoteInfo(rt.info, rt.fetched[i][1], rt.fetched[i][2]) = <<>>
    /\ \E i \in 1..Len(rt.fetched) :
          RemoteInfo(rt.info, rt.fetched[i][1], rt.fetched[i][2]) # <<>>

\* check has returned for a manifest without extensions whose runtime, and
\* base if it declares one, are listed by the catalog with no version later
\* than the declared one
AtLatest ==
    LET m == call.manifest
    IN  /\ Returned /\ AfterGate
        /\ Truthy(m.runtime)
        /\ ~UnknownToCatalog(m.runtime)
        /\ loc.latest_runtime_version = m.runtime_version
        /\ Truthy(m.base) =>
              ~UnknownToCatalog(m.base) /\ loc.latest_base_version = m.base_version
        /\ m.add_extensions = <<>> /\ m.add_build_extensions = <<>>
        /\ m.sdk_extensions = <<>> /\ m.platform_extensions = <<>>

\* C17: check of a manifest whose runtime and base are at the latest
\* versions of the catalog proposes nothing, latest_runtime_version and
\* latest_base_version are both None, with a declared base and without one;
\* and a second check of the same manifest against the same catalog ends
\* with the same results as the first
C17_AtLatestProposesNothing ==
    /\ AtLatest => NoBump(rt)
    /\ Returned /\ first.made /\ call.manifest = first.manifest => rt = first.rt

\* the check that has returned is the one made after check and update
CheckedAfterUpdate == first.made /\ first.updated

\* C18: after check and update, a new check of the manifest file against
\* the same catalog proposes no further bump, no runtime or base version
\* other than the one the file now has, and the update that follows leaves
\* the manifest file as it is
C18_UpdateThenCheckIsStable ==
    CheckedAfterUpdate =>
        /\ Returned =>
              /\ rt.latest_runtime_version \in {None, call.manifest.runtime_version}
              /\ rt.latest_base_version \in {None, call.manifest.base_version}
        /\ pc = "rt_updated" => file = call.manifest

C18_Witness ==
    /\ CheckedAfterUpdate
    /\ pc = "rt_updated"
    /\ call.manifest.runtime_version # first.manifest.runtime_version
    /\ call.manifest.base_version # first.manifest.base_version
    /\ file = call.manifest

\* what check leaves in a branch field of the checker for the manifest's
\* value of it
BranchProposal(field) ==
    IF Truthy(field) /\ field = call.manifest.runtime_version
    THEN loc.latest_runtime_version ELSE None

ListedExtensions ==
    UNION {{<<d[i][1], d[i][2]>> : i \in 1..Len(d)} :
           d \in {rt.sdk_extensions, rt.platform_extensions, rt.inherit_extensions,
                  rt.inherit_sdk_extensions, rt.base_extensions}}

\* get_extension_versions took the extension for one the app defines itself
SelfDefined(extension) == DictHas(rt.found_extension_points, extension)

\* the extension is, by its metadata, an extension of the declared base
OfBase(extension, version) ==
    get_ref_ref_is_extension_of(rt, CleanedName(extension), version).v[1]
        = call.manifest.base

\* C20 as stated: after check every extension in one of the five dicts is
\* self-defined or has, at the version recorded for it, the freedesktop
\* target of the sdk or runtime at its latest version, also when the gate or
\* an earlier extension has recorded a cannot_update_reason
C20_ListedMatchSdk ==
    Returned /\ AfterGate =>
        \A e \in ListedExtensions :
            \/ SelfDefined(e[1])
            \/ FdoTarget(e[1], e[2])
                   = FdoTarget(loc.sdk_to_check, loc.sdk_latest_version_to_check)

\* C20: after check every extension in one of the five dicts is
\* self-defined, or is an extension of the declared base and has the
\* freedesktop target of the base at its latest version, or has the
\* freedesktop target of the sdk or runtime at its latest version; also when
\* the gate or an earlier extension has recorded a cannot_update_reason
C20_ListedMatchSdkOrBase ==
    Returned /\ AfterGate =>
        \A e \in ListedExtensions :
            \/ SelfDefined(e[1])
            \/ /\ OfBase(e[1], e[2])
               /\ FdoTarget(e[1], e[2])
                      = FdoTarget(call.manifest.base, loc.latest_base_version)
            \/ /\ ~OfBase(e[1], e[2])
               /\ FdoTarget(e[1], e[2])
                      = FdoTarget(loc.sdk_to_check, loc.sdk_latest_version_to_check)

C20_Witness ==
    /\ Returned /\ AfterGate
    /\ rt.cannot_update_reason # NoReason
    /\ rt.base_extensions # EmptyDict
    /\ rt.inherit_extensions # EmptyDict
    /\ \E e \in ListedExtensions :
          FdoTarget(e[1], e[2])
              # FdoTarget(loc.sdk_to_check, loc.sdk_latest_version_to_check)

\* name with a final ".Platform" replaced by ".Sdk"
SdkNormalised(name) ==
    LET split == Split(name, ".")
    IN  IF split[Len(split)] = "Platform"
        THEN Join(SubSeq(split, 1, Len(split) - 1) \o <<"Sdk">>, ".") ELSE name

\* the ref an add-extension is, by its metadata, an extension of is one
\* check may accept it for: a freedesktop platform or sdk, the sdk or
\* runtime it is checked against, an extension point the app declares, or
\* the extension is self-defined
AcceptableParent(extension, entry) ==
    LET of == get_ref_ref_is_extension_of(rt, extension, entry.new).v[1]
    IN  \/ of \in {FP, FS}
        \/ of = loc.sdk_to_check
        \/ SdkNormalised(of) = SdkNormalised(loc.sdk_to_check)
        \/ DictHas(call.manifest.add_extensions, of)
        \/ DictHas(call.manifest.add_build_extensions, of)
        \/ of = extension /\ DictHas(call.manifest.add_extensions, ExtensionCoreName(extension))
        \/ entry.self_defined

\* C21: an add-extension is still proposed when check returns only if the
\* ref it is an extension of is acceptable; one whose extension point the
\* app does not declare, such as org.freedesktop.LinuxAudio.Plugins.LSP
\* alone, makes check record a cannot_update_reason and blank all proposals
\* even when the freedesktop targets match
C21_AddExtensionParentChecked ==
    Returned /\ AfterGate =>
        \A d \in {rt.add_extensions, rt.add_build_extensions} :
            \A i \in 1..Len(d) :
                d[i][2].new # None => AcceptableParent(d[i][1], d[i][2])

\* the catalog rows of the manifest's runtime, split into their fields
RuntimeRows ==
    LET lines == rt.remote_output.lines
    IN  {Split(lines[i], "\t") : i \in {j \in 1..Len(lines) :
            Split(lines[j], "\t")[1] = call.manifest.runtime}}

\* the key get_versions files a row under: its target, its branch without one
RowKey(split) == IF Len(split) = 3 THEN split[3] ELSE split[2]

\* the rows the same-major filter of a KDE runtime keeps
CandidateRows ==
    IF Contains(call.manifest.runtime, "org.kde.")
    THEN {row \in RuntimeRows :
            Prefix(row[2], 1) = Prefix(call.manifest.runtime_version, 1)}
    ELSE RuntimeRows

\* latest is the branch of a row of rows whose key is the maximum of the keys
BranchOfMaxKey(latest, rows) ==
    \E row \in rows :
        /\ latest = row[2]
        /\ \A other \in rows : StrLeq(RowKey(other), RowKey(row))

Processed ==
    SubSeq(call.relative_modules_paths, 1,
           Len(call.relative_modules_paths) - Len(pending))

\* C23: within one SubmoduleChecker.check the git directory is copied into
\* updated/ at most once, and only when a module lies in a submodule, and
\* git submodule update --remote is run in updated/ at most once for every
\* submodule path
C23_CopyAndAdvanceOnce ==
    pc \in {"sm_module", "sm_checked", "sm_raised"} =>
        /\ sm.copies <= 1
        /\ sm.copies = 1 =>
              \E i \in 1..Len(Processed) :
                  _module_in_submodule(sm, Processed[i]) # 0
        /\ \A i, j \in 1..Len(sm.advanced) :
              sm.advanced[i] = sm.advanced[j] => i = j

\* the operations started and not joined after the first n thread events
InFlight(n) ==
    Cardinality({i \in 1..n : sm.threads[i][1] = "start"})
        - Cardinality({i \in 1..n : sm.threads[i][1] = "join"})

\* the module paths of the call that lie in a submodule, in input order
InSubmodule ==
    SelectSeq(call.relative_modules_paths,
              LAMBDA module_path : _module_in_submodule(sm, module_path) # 0)

\* C24: in SubmoduleChecker.check and update every operation handed to
\* another thread is joined before anything else is started, so at most one
\* is in flight at any time and none between two steps, and the module paths
\* are compared in input order
C24_OneOffThreadOperation ==
    pc \in {"sm_module", "sm_checked", "sm_raised", "sm_updated", "sm_update_raised"} =>
        /\ \A n \in 1..Len(sm.threads) : InFlight(n) \in {0, 1}
        /\ InFlight(Len(sm.threads)) = 0
        /\ \A n \in 1..Len(sm.threads) :
              sm.threads[n][1] = "start" =>
                  /\ n < Len(sm.threads)
                  /\ sm.threads[n + 1] = <<"join", sm.threads[n][2]>>
        /\ Len(sm.compared) <= Len(InSubmodule)
        /\ \A i \in 1..Len(sm.compared) : sm.compared[i][1] = InSubmodule[i]

C24_Witness ==
    /\ pc = "sm_updated"
    /\ Len(sm.compared) = 2
    /\ sm.compared[1][1] # sm.compared[2][1]
    /\ \E n \in 1..Len(sm.threads) : sm.threads[n] = <<"start", "copytree updated">>
    /\ \E n \in 1..Len(sm.threads) :
          sm.threads[n] = <<"start", "submodule update --init --remote">>

\* C25: get_freedesktop_target terminates for every catalog, also one in
\* which the target of a row is the row itself or the targets form a cycle:
\* no call comes back to the ref and version of a call that encloses it
C25_TargetResolutionTerminates == rt.exc # "RecursionError"

\* the (name, version) pairs the catalog lists
CatalogPairs ==
    {<<Split(rt.remote_output.lines[i], "\t")[1],
       Split(rt.remote_output.lines[i], "\t")[2]>> :
        i \in {j \in 1..Len(rt.remote_output.lines) :
                 Len(Split(rt.remote_output.lines[j], "\t")) >= 2}}

\* C26: after any sequence of get_ref_metadata calls the value the next call
\* returns for (name, version) is the metadata of exactly that pair, also
\* when another pair has the same concatenation of name and version
C26_CacheEntryPerPair ==
    /\ pc \in {"rt_sdk", "rt_add", "rt_listed", "rt_end", "rt_returned"}
    /\ rt.exc = NoException
    /\ ~rt.ref_metadata_cache.is_none
    => \A pair \in CatalogPairs :
           get_ref_metadata(rt, pair[1], pair[2]).v
               = RemoteInfo(env.info, pair[1], pair[2])

\* what get_versions returns for the manifest of the call on the catalog
\* lines: the exception raised, the three versions and the items of the
\* older-versions dict
VersionsOf(lines) ==
    LET m == call.manifest
        r == get_versions([rt EXCEPT !.remote_output = ListOutput(lines)],
                          m.runtime, m.base, m.runtime_version, m.base_version)
    IN  <<r.s.exc, r.v[1], r.v[2], r.v[3], {r.v[4][i] : i \in 1..Len(r.v[4])}>>

\* C27: the result of get_versions depends on the set of the catalog rows
\* only: every permutation of the listing yields the same latest version,
\* latest base target and older-versions map
C27_VersionsIgnoreRowOrder ==
    pc = "rt_sdk" =>
        LET lines == rt.remote_output.lines
        IN  \A f \in Permutations(1..Len(lines)) :
                VersionsOf([i \in 1..Len(lines) |-> lines[f[i]]]) = VersionsOf(lines)

\* C28: after check a branch or default_branch proposal that is not None
\* equals the proposed latest_runtime_version, and with a reason recorded or
\* no runtime bump proposed both are None
C28_BranchProposalIsRuntimeProposal ==
    Returned =>
        /\ rt.branch # None => rt.branch = rt.latest_runtime_version
        /\ rt.default_branch # None => rt.default_branch = rt.latest_runtime_version
        /\ rt.cannot_update_reason # NoReason \/ rt.latest_runtime_version = None =>
              rt.branch = None /\ rt.default_branch = None

\* C29: get_extension_dict returns an entry for every extension point of
\* add-extensions and of add-build-extensions that has a non-empty body,
\* whatever the bodies of the points listed before it
C29_EveryDeclaredPointListed ==
    pc = "rt_gate" =>
        /\ \A i \in 1..Len(call.manifest.add_extensions) :
              call.manifest.add_extensions[i][2].present =>
                  DictHas(rt.add_extensions, call.manifest.add_extensions[i][1])
        /\ \A i \in 1..Len(call.manifest.add_build_extensions) :
              call.manifest.add_build_extensions[i][2].present =>
                  DictHas(rt.add_build_extensions,
                          call.manifest.add_build_extensions[i][1])

\* C30: the update that follows a check which ended with a non-empty
\* cannot_update_reason leaves the manifest file as it is, and update writes
\* no key but runtime-version and base-version, each only with a proposal
\* that is not None
C30_UpdateWritesProposalsOnly ==
    [][pc = "rt_returned"
         /\ pc' \in {"rt_updated", "rt_update_raised", "fa_updated", "fa_update_raised"}
       => /\ rt.cannot_update_reason # NoReason => file' = file
          /\ [file' EXCEPT !.runtime_version = file.runtime_version,
                           !.base_version = file.base_version] = file
          /\ file'.runtime_version # file.runtime_version =>
                /\ rt.latest_runtime_version # None
                /\ file'.runtime_version = rt.latest_runtime_version
          /\ file'.base_version # file.base_version =>
                /\ rt.latest_base_version # None
                /\ file'.base_version = rt.latest_base_version]_vars


C30_Witness ==
    /\ pc = "rt_updated"
    /\ rt.cannot_update_reason # NoReason
    /\ Truthy(call.manifest.runtime)
    /\ Truthy(call.manifest.base)
    /\ file = call.manifest

=============================================================================
